---- MODULE Spec2Model ----
(***************************************************************************)
(* Reverse file download: a coordinator (server) that commands agents      *)
(* (clients) behind NAT over a websocket channel, and finalizes an S3      *)
(* multipart upload from the agents' responses.                            *)
(*                                                                         *)
(*   Spec        coordinator: channel registry (server/websocket/manager)  *)
(*               and the trigger endpoint (server/api/handlers)            *)
(*   SpecCross   Spec with Response and Status frames read on any channel  *)
(*   SpecXfer    coordinator: one agent connection and one transfer, fed   *)
(*               by arbitrary inbound Response / Status frames             *)
(*   SpecE2E     one agent executing the download_file command against     *)
(*               the coordinator (client/handler, client/uploader)         *)
(*   SpecExec    the agent's executor given a download_file command of any *)
(*               shape                                                     *)
(*   SpecClient  the agent's connect / reconnect loop (client/websocket);  *)
(*               SpecClientFair adds the scheduling of its goroutines,     *)
(*               SpecClientTimed the firing of its timers                  *)
(*   SpecBeat    heartbeat of one connection and the frame writers of both *)
(*               sides; SpecBeatFair adds the fairness of timers and I/O   *)
(*   SpecPump    the agent's read loop, its handler tasks and Stop;        *)
(*               SpecPumpFair adds the fairness of the loop and of pongs   *)
(*   SpecFrames  the read loop of either side: runs of SpecXfer and of     *)
(*               SpecPump                                                  *)
(*   SpecAlive   the heartbeat with an agent that answers every Ping       *)
(*   SpecTicket  issuing a ticket for a size and chunk size, and copying   *)
(*               it into the command (server/s3, server/api)               *)
(*   SpecAuth    the websocket endpoint's credential check                 *)
(*               (server/websocket/handler, shared/auth)                   *)
(***************************************************************************)
EXTENDS Integers, Sequences, FiniteSets, TLC

VARIABLES
    clients,      \* Manager.clients: the registry, a set of handles [id, conn]
    connState,    \* server side websocket.Conn of each connection: new/open/closed
    hc,           \* HandleClient goroutine of each connection: [pc, clientID]
    sent,         \* frames the server wrote to each connection
    uploads,      \* Manager.uploads: upload id -> UploadStatus
    s3calls,      \* log of the blob-store calls made by the server
    trig,         \* TriggerDownload requests: [pc, clientID, result]
    frames,       \* number of inbound frames handled so far
    writing,      \* per connection: the server goroutines inside conn.WriteJSON
    beat,         \* per connection: read deadline and ping routine of HandleClient
    cli,          \* the agent's websocket.Client and the context it runs under
    start,        \* Client.Start goroutine: [pc, reconnectDelay]
    readPump,     \* Client.readPump goroutine: "none", "running" or "exited"
    hist,         \* record of the dial attempts and waits of Start
    exec,         \* the agent's handler goroutine of a download_file command
    wire,         \* frames the agent wrote that the server has not read yet
    aw,           \* the agent's frame writers and the holder of Client.writeMu
    auth,         \* the token validator, and what each connection attempt presents
    pump,         \* the agent's read loop: inbound frames, handler tasks, Stop's progress
    ticket        \* a multipart session being issued: its size, its parts, the command's copy

srvVars == <<clients, connState, hc, sent, uploads, s3calls, trig, frames, writing, beat>>
cliVars == <<cli, start, readPump, hist>>
exeVars == <<exec, wire>>
nonSrv == <<cliVars, exeVars, aw, auth, pump, ticket>>
nonCli == <<srvVars, exeVars, aw, auth, pump, ticket>>

vars == <<srvVars, cliVars, exeVars, aw, auth, pump, ticket>>

(***************************************************************************)
(* Bounds of the model.                                                    *)
(***************************************************************************)
MaxConns == 2
MaxTriggers == 1
MaxFrames == 3
MaxFails == 4
MaxPongs == 1
MaxSize == 12

AgentIds == {"a1", "a2"}
Conns == 1..MaxConns
Reqs == 1..MaxTriggers
\* generateUploadID draws 16 random bytes: the id of request r is modelled as r,
\* 0 is an id no request ever generated.
UploadIds == 1..MaxTriggers

(***************************************************************************)
(* Program constants (sizes in MB).                                        *)
(***************************************************************************)
EstimatedFileSize == 100
DefaultChunkSize == 5
\* seconds
DefaultReconnectDelay == 5
DefaultMaxReconnect == 300

\* a part count that forgets the last, shorter part
CalculateParts_Floor(fileSize, chunkSize) == fileSize \div chunkSize

\* uploader.CalculateParts / the part count of s3.InitiateMultipartUpload
CalculateParts(fileSize, chunkSize) ==
    (fileSize \div chunkSize) + (IF fileSize % chunkSize # 0 THEN 1 ELSE 0)

(***************************************************************************)
(* Sequences helpers.                                                      *)
(***************************************************************************)
Range(s) == {s[i] : i \in DOMAIN s}

\* every order in which a Go map with the entries S can be enumerated
Enumerations(S) ==
    {s \in [1..Cardinality(S) -> S] : \A i, j \in DOMAIN s : i # j => s[i] # s[j]}

Front(s) == SubSeq(s, 1, Len(s) - 1)
Last(s) == s[Len(s)]

(***************************************************************************)
(* Channel registry: server/websocket/manager.go                           *)
(***************************************************************************)
\* GetClient / IsClientConnected: the lookup m.clients[clientID]
HandlesOf(clientID) == {h \in clients : h.id = clientID}
IsClientConnected(clientID) == HandlesOf(clientID) # {}

\* UnregisterClient that leaves the handle in the registry
UnregisterClient_Keep(clientID) == UNCHANGED <<clients, connState>>

\* RegisterClient without the Close of the connection it replaces
RegisterClient_NoClose(clientID, conn) ==
    /\ clients' = (clients \ HandlesOf(clientID)) \cup {[id |-> clientID, conn |-> conn]}
    /\ connState' = [connState EXCEPT ![conn] = "open"]

\* Manager.RegisterClient: close the existing connection if any, then
\* m.clients[clientID] = NewClientConnection(clientID, conn).  conn is the
\* connection the upgrade has just opened.
RegisterClient(clientID, conn) ==
    /\ clients' = (clients \ HandlesOf(clientID)) \cup {[id |-> clientID, conn |-> conn]}
    /\ connState' = [c \in Conns |->
                        IF c = conn THEN "open"
                        ELSE IF \E h \in HandlesOf(clientID) : h.conn = c THEN "closed"
                        ELSE connState[c]]

\* Manager.UnregisterClient: close and delete the handle registered for
\* clientID, whichever connection it holds.
UnregisterClient(clientID) ==
    /\ clients' = clients \ HandlesOf(clientID)
    /\ connState' = [c \in Conns |->
                        IF \E h \in HandlesOf(clientID) : h.conn = c THEN "closed"
                        ELSE connState[c]]

(***************************************************************************)
(* Transfer records: models.UploadStatus                                   *)
(***************************************************************************)
NoETags == [p \in {} |-> ""]

NoUpload ==
    [exists |-> FALSE, ClientID |-> "", Status |-> "", TotalParts |-> 0,
     CompletedParts |-> 0, BytesUploaded |-> 0, ETags |-> NoETags,
     Error |-> "", EndTime |-> FALSE]

NewUploadStatus(clientID, totalParts) ==
    [exists |-> TRUE, ClientID |-> clientID, Status |-> "pending",
     TotalParts |-> totalParts, CompletedParts |-> 0, BytesUploaded |-> 0,
     ETags |-> NoETags, Error |-> "", EndTime |-> FALSE]

MarkCompleted(u) == [u EXCEPT !.Status = "completed", !.EndTime = TRUE]
MarkFailed_KeepStatus(u, err) == [u EXCEPT !.Error = err, !.EndTime = TRUE]
MarkFailed(u, err) == [u EXCEPT !.Status = "failed", !.Error = err, !.EndTime = TRUE]
MarkCancelled_AsFailed(u) == [u EXCEPT !.Status = "failed", !.EndTime = TRUE]
MarkCancelled(u) == [u EXCEPT !.Status = "cancelled", !.EndTime = TRUE]

Terminal == {"completed", "failed", "cancelled"}

\* Manager.GetUpload
GetUpload(uploadID) == IF uploadID \in UploadIds THEN uploads[uploadID] ELSE NoUpload

(***************************************************************************)
(* Inbound frames.  A payload is the decoded JSON object of a Response:    *)
(* kind "nil" (no payload) or "map"; upload_id 0 is a missing or unknown   *)
(* id; etags is the JSON object under "etags", a set of <<key, etag>>      *)
(* with distinct keys, each key a sequence of characters.                  *)
(***************************************************************************)
K1 == <<"1">>
K2 == <<"2">>
K3 == <<"3">>
K01 == <<"0", "1">>
Kx == <<"x">>

RawETagMaps ==
    { {},
      {<<K1, "e1">>},
      {<<K2, "e2">>, <<K1, "e1">>},
      {<<K3, "e3">>, <<K1, "e1">>, <<K2, "e2">>},
      {<<K1, "e1">>, <<K01, "e9">>},
      {<<Kx, "e1">>, <<K2, "e2">>} }

ErrTexts ==
    {"upload failed", "failed to get file size", "failed to parse upload config",
     "missing upload_config"}
CompleteErr == "failed to complete multipart upload"

Payloads ==
    {[kind |-> "nil", upload_id |-> 0, hasEtags |-> FALSE, etags |-> {}]}
    \cup {[kind |-> "map", upload_id |-> u, hasEtags |-> FALSE, etags |-> {}] :
            u \in {0} \cup UploadIds}
    \cup {[kind |-> "map", upload_id |-> u, hasEtags |-> TRUE, etags |-> m] :
            u \in {0} \cup UploadIds, m \in RawETagMaps}

ResponseFrames ==
    {[type |-> "response", status |-> st, action |-> "download_file",
      payload |-> p, error |-> IF st = "error" THEN "upload failed" ELSE ""] :
        st \in {"success", "error", "in_progress", "cancelled"}, p \in Payloads}
    \cup {[type |-> "response", status |-> "success", action |-> "health_check",
           payload |-> [kind |-> "map", upload_id |-> u, hasEtags |-> FALSE, etags |-> {}],
           error |-> ""] : u \in {0} \cup UploadIds}

\* current_upload of a Status frame: nil, or the progress snapshot
Snapshots ==
    {[present |-> FALSE, upload_id |-> 0, completed_parts |-> 0, bytes_uploaded |-> 0]}
    \cup {[present |-> TRUE, upload_id |-> u, completed_parts |-> n,
           bytes_uploaded |-> n * DefaultChunkSize] : u \in {0} \cup UploadIds, n \in 1..2}

StatusFrames == {[type |-> "status", current_upload |-> cu] : cu \in Snapshots}

OtherFrames == {[type |-> "pong"], [type |-> "unknown"], [type |-> "malformed"]}

(***************************************************************************)
(* fmt.Sscanf(k, "%d", &partNum) on a key over the characters 0-9 and x:   *)
(* the leading digits are read as a decimal number, an error if there are  *)
(* none.                                                                   *)
(***************************************************************************)
DigitChars == <<"0", "1", "2", "3", "4", "5", "6", "7", "8", "9">>
IsDigit(ch) == \E d \in DOMAIN DigitChars : DigitChars[d] = ch
DigitVal(ch) == (CHOOSE d \in DOMAIN DigitChars : DigitChars[d] = ch) - 1

RECURSIVE ScanDigits(_, _, _)
ScanDigits(k, i, acc) ==
    IF i > Len(k) \/ ~IsDigit(k[i]) THEN acc
    ELSE ScanDigits(k, i + 1, acc * 10 + DigitVal(k[i]))

Sscanf(k) ==
    IF Len(k) = 0 \/ ~IsDigit(k[1]) THEN [ok |-> FALSE, n |-> 0]
    ELSE [ok |-> TRUE, n |-> ScanDigits(k, 1, 0)]

\* the loop of handlers.go:310-318 over one enumeration of etagsRaw: the
\* map[int]string it leaves (a later entry overwrites an earlier one)
RECURSIVE ExtractETags(_)
ExtractETags(order) ==
    IF order = <<>> THEN NoETags
    ELSE LET m == ExtractETags(Front(order))
             kv == Last(order)
             sc == Sscanf(kv[1])
         IN IF sc.ok
            THEN [p \in DOMAIN m \cup {sc.n} |-> IF p = sc.n THEN kv[2] ELSE m[p]]
            ELSE m

\* the loop of handlers.go:323-329 over one enumeration of the etags map
PartsOf(etags, porder) ==
    [i \in 1..Len(porder) |-> [PartNumber |-> porder[i], ETag |-> etags[porder[i]]]]

RECURSIVE InsertPart(_, _)
InsertPart(sorted, p) ==
    IF sorted = <<>> THEN <<p>>
    ELSE IF p.PartNumber < Head(sorted).PartNumber THEN <<p>> \o sorted
    ELSE <<Head(sorted)>> \o InsertPart(Tail(sorted), p)

\* the parts as enumerated, the sort left out
SortParts_Unsorted(parts) == parts

\* sort.Slice(parts, PartNumber ascending)
RECURSIVE SortParts(_)
SortParts(parts) ==
    IF parts = <<>> THEN <<>>
    ELSE InsertPart(SortParts(Front(parts)), Last(parts))

StrictlyAscending(parts) ==
    \A i \in 1..(Len(parts) - 1) : parts[i].PartNumber < parts[i + 1].PartNumber

(***************************************************************************)
(* Blob store (external): a multipart session accepts one completion or    *)
(* abort; completion needs the parts in ascending order.                   *)
(***************************************************************************)
SessionOpen(u) ==
    /\ \E i \in DOMAIN s3calls : s3calls[i].op = "initiate" /\ s3calls[i].upload = u
                                 /\ s3calls[i].ok
    /\ ~\E i \in DOMAIN s3calls : /\ s3calls[i].op \in {"complete", "abort"}
                                  /\ s3calls[i].upload = u /\ s3calls[i].ok

\* an entry of the call log; digests is the "etags" object of the Response the
\* call was made for (kept for the record only, the blob store never sees it)
S3Call(op, u, parts, ok, digests) ==
    [op |-> op, upload |-> u, parts |-> parts, ok |-> ok, digests |-> digests]

(***************************************************************************)
(* Transfer orchestration: server/api/handlers.go                          *)
(***************************************************************************)
\* Handler.HandleResponse
HandleResponse(clientID, msg) ==
    LET uploadID == msg.payload.upload_id
        upload == GetUpload(uploadID)
    IN
    IF msg.action = "download_file" /\ msg.payload.kind = "map" /\ upload.exists
    THEN CASE msg.status = "success" ->
                \E order \in Enumerations(IF msg.payload.hasEtags
                                          THEN msg.payload.etags ELSE {}) :
                    LET etags == ExtractETags(order) IN
                    IF DOMAIN etags # {}
                    THEN \E porder \in Enumerations(DOMAIN etags), accept \in BOOLEAN :
                            LET parts == SortParts(PartsOf(etags, porder))
                                ok == /\ accept
                                      /\ SessionOpen(uploadID)
                                      /\ StrictlyAscending(parts)
                            IN /\ s3calls' = Append(s3calls,
                                                S3Call("complete", uploadID, parts, ok,
                                                       msg.payload.etags))
                               /\ uploads' = [uploads EXCEPT ![uploadID] =
                                                IF ok THEN MarkCompleted(upload)
                                                ELSE MarkFailed(MarkCompleted(upload),
                                                                CompleteErr)]
                    ELSE /\ uploads' = [uploads EXCEPT ![uploadID] = MarkCompleted(upload)]
                         /\ UNCHANGED s3calls
           [] msg.status = "error" ->
                /\ uploads' = [uploads EXCEPT ![uploadID] = MarkFailed(upload, msg.error)]
                /\ s3calls' = Append(s3calls,
                                S3Call("abort", uploadID, <<>>, SessionOpen(uploadID), {}))
           [] msg.status = "cancelled" ->
                /\ uploads' = [uploads EXCEPT ![uploadID] = MarkCancelled(upload)]
                /\ s3calls' = Append(s3calls,
                                S3Call("abort", uploadID, <<>>, SessionOpen(uploadID), {}))
           [] OTHER -> UNCHANGED <<uploads, s3calls>>
    ELSE UNCHANGED <<uploads, s3calls>>

\* Handler.HandleStatus
HandleStatus(clientID, msg) ==
    /\ UNCHANGED s3calls
    /\ LET cu == msg.current_upload IN
       IF cu.present /\ GetUpload(cu.upload_id).exists
       THEN uploads' = [uploads EXCEPT ![cu.upload_id] =
                          [@ EXCEPT !.BytesUploaded = cu.bytes_uploaded,
                                    !.CompletedParts = cu.completed_parts]]
       ELSE UNCHANGED uploads

\* Manager.handleMessage
handleMessage(clientID, msg) ==
    CASE msg.type = "response" -> HandleResponse(clientID, msg)
      [] msg.type = "status" -> HandleStatus(clientID, msg)
      [] OTHER -> UNCHANGED <<uploads, s3calls>>

(***************************************************************************)
(* Manager.HandleClient, one goroutine per accepted connection             *)
(***************************************************************************)
\* time is counted in ticks of the ping interval
PingInterval == 30
ClientTimeout == 90
TimeoutTicks == ClientTimeout \div PingInterval

\* left: ticks until the read deadline; pinger: the pingRoutine goroutine;
\* pingDone: the channel HandleClient closes when it returns; pings: a SendPing
\* call was made; ponged: a pong arrived since the last tick; pongs: pongs so far
NoBeat == [left |-> 0, pinger |-> "none", pingDone |-> FALSE, pings |-> FALSE, ponged |-> FALSE,
           pongs |-> 0]

\* manager.go:178-192: conn.SetReadDeadline(now + clientTimeout), go pingRoutine
StartBeat == [left |-> TimeoutTicks, pinger |-> "wait", pingDone |-> FALSE,
              pings |-> FALSE, ponged |-> FALSE, pongs |-> 0]

\* the upgrade succeeds and HandleClient registers the connection
HandleClientStart(c, clientID) ==
    /\ connState[c] = "new"
    /\ RegisterClient(clientID, c)
    /\ hc' = [hc EXCEPT ![c] = [pc |-> "read", clientID |-> clientID]]
    /\ beat' = [beat EXCEPT ![c] = StartBeat]
    /\ UNCHANGED <<sent, uploads, s3calls, trig, frames, writing, nonSrv>>

\* conn.ReadMessage returns the frame msg, handleMessage processes it
ReadMessage(c, msg) ==
    /\ hc[c].pc = "read"
    /\ connState[c] = "open"
    /\ handleMessage(hc[c].clientID, msg)
    /\ UNCHANGED <<clients, connState, hc, sent, trig, writing, beat, cliVars, exec, aw, auth, pump, ticket>>

\* a frame sent by an arbitrary peer is read
HandleClientRead(c, msg) ==
    /\ frames < MaxFrames
    /\ frames' = frames + 1
    /\ ReadMessage(c, msg)
    /\ UNCHANGED wire

\* the next frame the agent wrote is read
HandleClientRecv(c) ==
    /\ wire # <<>>
    /\ ReadMessage(c, Head(wire))
    /\ wire' = Tail(wire)
    /\ UNCHANGED frames

\* conn.ReadMessage fails (connection closed here, closed or lost by the peer,
\* read deadline): the loop returns and the deferred UnregisterClient runs
\* HandleClient returning with every pending transfer of the agent failed
HandleClientReturn_FailUploads(c) ==
    /\ hc[c].pc = "read"
    /\ UnregisterClient(hc[c].clientID)
    /\ hc' = [hc EXCEPT ![c].pc = "done"]
    /\ beat' = [beat EXCEPT ![c].pingDone = TRUE]
    /\ uploads' = [u \in UploadIds |->
                     IF uploads[u].exists /\ uploads[u].ClientID = hc[c].clientID
                        /\ uploads[u].Status \notin Terminal
                     THEN MarkFailed(uploads[u], "client disconnected")
                     ELSE uploads[u]]

\* HandleClient returns: the deferred close(pingDone) and UnregisterClient
\* run; no transfer record is touched
HandleClientReturn(c) ==
    /\ hc[c].pc = "read"
    /\ UnregisterClient(hc[c].clientID)
    /\ hc' = [hc EXCEPT ![c].pc = "done"]
    /\ beat' = [beat EXCEPT ![c].pingDone = TRUE]
    /\ UNCHANGED uploads

HandleClientExit(c) ==
    /\ HandleClientReturn(c)
    /\ UNCHANGED <<sent, s3calls, trig, frames, writing, nonSrv>>

(***************************************************************************)
(* Handler.TriggerDownload, one HTTP request per slot                      *)
(***************************************************************************)
TotalParts == CalculateParts(EstimatedFileSize, DefaultChunkSize)

\* a command whose message id is not the transfer id
DownloadCommand_NoMessageID(uploadID) ==
    [type |-> "", timestamp |-> "zero", action |-> "download_file",
     message_id |-> 0, upload_config |-> TRUE, upload_id |-> uploadID,
     parts |-> TotalParts]

\* handlers.go:182-187: the body of the 200 answer
TriggerDownloadResponse(uploadID) == [Success |-> TRUE, UploadID |-> uploadID]

\* handlers.go:160-174: the command as TriggerDownload builds it, type and
\* timestamp still at their zero values
DownloadCommand(uploadID) ==
    [type |-> "", timestamp |-> "zero", action |-> "download_file",
     message_id |-> uploadID, upload_config |-> TRUE, upload_id |-> uploadID,
     parts |-> TotalParts]

\* manager.go:140-141 left out
Stamp_None(cmd) == cmd

\* manager.go:140-141: cmd.Timestamp = time.Now(); cmd.Type = MessageTypeCommand
Stamp(cmd) == [cmd EXCEPT !.type = "command", !.timestamp = "now"]

\* handlers.go:86-90 answered for every client id
TriggerCheck_NoCheck(r, clientID) ==
    /\ trig[r].pc = "idle"
    /\ trig' = [trig EXCEPT ![r] = [pc |-> "initiate", clientID |-> clientID, result |-> "", conn |-> 0]]
    /\ UNCHANGED <<clients, connState, hc, sent, uploads, s3calls, frames, writing, beat, nonSrv>>

\* handlers.go:73-90: the request arrives, IsClientConnected is consulted
TriggerCheck(r, clientID) ==
    /\ trig[r].pc = "idle"
    /\ trig' = [trig EXCEPT ![r] =
                  IF IsClientConnected(clientID)
                  THEN [pc |-> "initiate", clientID |-> clientID, result |-> "", conn |-> 0]
                  ELSE [pc |-> "done", clientID |-> clientID, result |-> "NotConnected", conn |-> 0]]
    /\ UNCHANGED <<clients, connState, hc, sent, uploads, s3calls, frames, writing, beat, nonSrv>>

\* handlers.go:106-148: upload id, InitiateMultipartUpload, RegisterUpload
TriggerInitiate(r, outcome) ==
    /\ trig[r].pc = "initiate"
    /\ CASE outcome = "ok" ->
              /\ s3calls' = Append(s3calls, S3Call("initiate", r, <<>>, TRUE, {}))
              /\ uploads' = [uploads EXCEPT ![r] =
                                NewUploadStatus(trig[r].clientID, TotalParts)]
              /\ trig' = [trig EXCEPT ![r].pc = "send"]
         [] outcome = "createFailed" ->
              /\ s3calls' = Append(s3calls, S3Call("initiate", r, <<>>, FALSE, {}))
              /\ trig' = [trig EXCEPT ![r].pc = "done", ![r].result = "InitiateFailed"]
              /\ UNCHANGED uploads
         [] outcome = "presignFailed" ->
              /\ s3calls' = s3calls \o <<S3Call("initiate", r, <<>>, TRUE, {}),
                                         S3Call("abort", r, <<>>, TRUE, {})>>
              /\ trig' = [trig EXCEPT ![r].pc = "done", ![r].result = "InitiateFailed"]
              /\ UNCHANGED uploads
    /\ UNCHANGED <<clients, connState, hc, sent, frames, writing, beat, nonSrv>>

\* handlers.go:150-180 with Manager.SendCommand, lines 134-144: GetClient
\* looks the handle up under the registry lock; without a handle SendCommand
\* returns "not connected"; otherwise the command is stamped and
\* client.Connection.WriteJSON is entered, outside every lock
TriggerSend(r) ==
    /\ trig[r].pc = "send"
    /\ LET hs == HandlesOf(trig[r].clientID) IN
       IF hs = {}
       THEN /\ trig' = [trig EXCEPT ![r].pc = "done", ![r].result = "SendNotConnected"]
            /\ UNCHANGED writing
       ELSE \E h \in hs :
              /\ trig' = [trig EXCEPT ![r].pc = "write", ![r].conn = h.conn]
              /\ writing' = [writing EXCEPT ![h.conn] = @ \cup {<<"command", r>>}]
    /\ UNCHANGED <<clients, connState, hc, sent, uploads, s3calls, frames, beat, nonSrv>>

\* manager.go:144-149 and handlers.go:176-188: WriteJSON returns; the write
\* fails on a connection closed in the meantime
TriggerWrite(r) ==
    /\ trig[r].pc = "write"
    /\ LET c == trig[r].conn IN
       /\ IF connState[c] = "open"
          THEN /\ sent' = [sent EXCEPT ![c] = Append(@, Stamp(DownloadCommand(r)))]
               /\ trig' = [trig EXCEPT ![r].pc = "done", ![r].result = "OK"]
          ELSE /\ trig' = [trig EXCEPT ![r].pc = "done", ![r].result = "SendFailed"]
               /\ UNCHANGED sent
       /\ writing' = [writing EXCEPT ![c] = @ \ {<<"command", r>>}]
    /\ UNCHANGED <<clients, connState, hc, uploads, s3calls, frames, beat, nonSrv>>

(***************************************************************************)
(* Tickets: s3.Client.InitiateMultipartUpload and the copy TriggerDownload *)
(* puts into the command                                                   *)
(***************************************************************************)
\* the sizes and chunk sizes (MB) a session is issued for
TicketConfigs ==
    {[FileSize |-> z, ChunkSize |-> c] :
        z \in (1..MaxSize) \cup {EstimatedFileSize}, c \in 1..(DefaultChunkSize + 1)}

NoTicket == [pc |-> "none", cfg |-> [FileSize |-> 0, ChunkSize |-> 0],
             issued |-> <<>>, command |-> <<>>]

\* s3/client.go:147-178: totalParts, then one presigned URL per part number
\* i + 1 for i = 0..totalParts-1 (the URL stands for the part it signs)
InitiateMultipartUpload(cfg) ==
    LET totalParts == CalculateParts(cfg.FileSize, cfg.ChunkSize) IN
    [TotalParts |-> totalParts, ChunkSize |-> cfg.ChunkSize,
     PresignedURLs |-> [i \in 1..totalParts |-> [PartNumber |-> i, URL |-> i]]]

\* handlers.go:151-157: the presigned URLs copied into the command's payload
CommandURLs(presignedURLs) ==
    [i \in DOMAIN presignedURLs |->
        [PartNumber |-> presignedURLs[i].PartNumber, URL |-> presignedURLs[i].URL]]

\* the session is initiated for the configured size
TicketIssue ==
    /\ ticket.pc = "new"
    /\ ticket' = [ticket EXCEPT !.pc = "issued",
                                !.issued = InitiateMultipartUpload(ticket.cfg).PresignedURLs]
    /\ UNCHANGED <<srvVars, cliVars, exeVars, aw, auth, pump>>

\* the command is built from it
TicketCommand ==
    /\ ticket.pc = "issued"
    /\ ticket' = [ticket EXCEPT !.pc = "sent", !.command = CommandURLs(ticket.issued)]
    /\ UNCHANGED <<srvVars, cliVars, exeVars, aw, auth, pump>>

NextTicket == TicketIssue \/ TicketCommand

(***************************************************************************)
(* The coordinator                                                         *)
(***************************************************************************)
SrvInit ==
    /\ clients = {}
    /\ connState = [c \in Conns |-> "new"]
    /\ hc = [c \in Conns |-> [pc |-> "none", clientID |-> ""]]
    /\ sent = [c \in Conns |-> <<>>]
    /\ uploads = [u \in UploadIds |-> NoUpload]
    /\ s3calls = <<>>
    /\ trig = [r \in Reqs |-> [pc |-> "idle", clientID |-> "", result |-> "", conn |-> 0]]
    /\ frames = 0
    /\ writing = [c \in Conns |-> {}]
    /\ beat = [c \in Conns |-> NoBeat]

\* registry and trigger requests, no inbound frame read
SrvNext ==
    \/ \E c \in Conns, id \in AgentIds : HandleClientStart(c, id)
    \/ \E c \in Conns : HandleClientExit(c)
    \/ \E r \in Reqs, id \in AgentIds : TriggerCheck(r, id)
    \/ \E r \in Reqs, o \in {"ok", "createFailed", "presignFailed"} : TriggerInitiate(r, o)
    \/ \E r \in Reqs : TriggerSend(r)
    \/ \E r \in Reqs : TriggerWrite(r)

\* registry and trigger requests of every agent, and Response and Status
\* frames that name a transfer id, read on every channel
TransferFrames ==
    {m \in ResponseFrames :
        /\ m.action = "download_file" /\ m.payload.kind = "map"
        /\ m.payload.upload_id # 0 /\ Cardinality(m.payload.etags) <= 1}
    \cup {m \in StatusFrames : m.current_upload.present /\ m.current_upload.upload_id # 0}

SrvNextCross ==
    \/ SrvNext
    \/ \E c \in Conns, msg \in TransferFrames : HandleClientRead(c, msg)

\* one agent on one connection, one trigger request, arbitrary inbound frames
XferConn == CHOOSE c \in Conns : \A d \in Conns : c <= d
XferAgent == "a1"
XferReq == CHOOSE r \in Reqs : \A q \in Reqs : r <= q

SrvNextXfer ==
    \/ HandleClientStart(XferConn, XferAgent)
    \/ \E msg \in ResponseFrames \cup StatusFrames \cup OtherFrames :
          HandleClientRead(XferConn, msg)
    \/ HandleClientExit(XferConn)
    \/ TriggerCheck(XferReq, XferAgent)
    \/ \E o \in {"ok", "createFailed", "presignFailed"} : TriggerInitiate(XferReq, o)
    \/ TriggerSend(XferReq)
    \/ TriggerWrite(XferReq)

(***************************************************************************)
(* Handler.HandleConnect (server/websocket/handler.go) and auth.TokenManager *)
(***************************************************************************)
\* a credential: none presented, a token signed for an agent id and in its
\* validity period, an expired one, or one that does not verify
NoToken == [kind |-> "none", ClientID |-> ""]
Tokens ==
    {NoToken, [kind |-> "expired", ClientID |-> "a1"], [kind |-> "invalid", ClientID |-> "a1"]}
    \cup {[kind |-> "valid", ClientID |-> id] : id \in AgentIds}

Attempts == [id : AgentIds, token : Tokens]

NoAuth == [tokenManager |-> FALSE,
           attempt |-> [c \in Conns |-> [id |-> "a1", token |-> NoToken]]]

\* ValidateToken that lets an expired token pass
ValidateToken_AcceptExpired(token) ==
    [ok |-> token.kind \in {"valid", "expired"}, ClientID |-> token.ClientID]

\* TokenManager.ValidateToken: the claims of a token that parses, verifies
\* and has not expired
ValidateToken(token) ==
    IF token.kind = "valid" THEN [ok |-> TRUE, ClientID |-> token.ClientID]
    ELSE [ok |-> FALSE, ClientID |-> ""]

\* handler.go:54-68: the token is checked only when one is presented and a
\* token manager is configured
Authorized(tokenManager, clientID, token) ==
    (token.kind # "none" /\ tokenManager) =>
        /\ ValidateToken(token).ok
        /\ ValidateToken(token).ClientID = clientID

\* HandleConnect for the connection attempt c: 401 before the upgrade, or the
\* upgrade and HandleClient
HandleConnect(c) ==
    /\ connState[c] = "new"
    /\ LET a == auth.attempt[c] IN
       IF Authorized(auth.tokenManager, a.id, a.token)
       THEN HandleClientStart(c, a.id)
       ELSE /\ connState' = [connState EXCEPT ![c] = "rejected"]
            /\ UNCHANGED <<clients, hc, sent, uploads, s3calls, trig, frames, writing,
                           beat, nonSrv>>

NextAuth ==
    \/ \E c \in Conns : HandleConnect(c)
    \/ \E c \in Conns : HandleClientExit(c)

(***************************************************************************)
(* Heartbeat of HandleClient: read deadline, pong handler, pingRoutine     *)
(***************************************************************************)
PingFrame == [type |-> "ping"]

\* one ping interval passes on connection c: the read deadline comes one tick
\* closer and the ticker of pingRoutine fires; SendPing looks the handle of the
\* client id up and enters WriteJSON on its connection, outside every lock
Tick(c) ==
    /\ hc[c].pc = "read"
    /\ beat[c].left > 0
    /\ beat[c].pinger # "write"
    /\ LET hs == HandlesOf(hc[c].clientID)
           b == [beat[c] EXCEPT !.left = @ - 1, !.ponged = FALSE]
       IN IF beat[c].pinger # "wait"
          THEN /\ beat' = [beat EXCEPT ![c] = b]
               /\ UNCHANGED writing
          ELSE IF hs = {}
          THEN /\ beat' = [beat EXCEPT ![c] = [b EXCEPT !.pinger = "done"]]
               /\ UNCHANGED writing
          ELSE \E h \in hs :
                 /\ beat' = [beat EXCEPT ![c] = [b EXCEPT !.pinger = "write",
                                                          !.pings = TRUE]]
                 /\ writing' = [writing EXCEPT ![h.conn] = @ \cup {<<"ping", c>>}]
    /\ UNCHANGED <<clients, connState, hc, sent, uploads, s3calls, trig, frames, nonSrv>>

\* the connection the ping of c's pingRoutine is being written to
PingTarget(c) == CHOOSE t \in Conns : <<"ping", c>> \in writing[t]

\* SendPing, lines 166-170: WriteJSON returns; on an error pingRoutine returns
PingWrite(c) ==
    /\ beat[c].pinger = "write"
    /\ LET t == PingTarget(c) IN
       /\ IF connState[t] = "open"
          THEN /\ sent' = [sent EXCEPT ![t] = Append(@, PingFrame)]
               /\ beat' = [beat EXCEPT ![c].pinger = "wait"]
          ELSE /\ beat' = [beat EXCEPT ![c].pinger = "done"]
               /\ UNCHANGED sent
       /\ writing' = [writing EXCEPT ![t] = @ \ {<<"ping", c>>}]
    /\ UNCHANGED <<clients, connState, hc, uploads, s3calls, trig, frames, nonSrv>>

\* pingRoutine sees pingDone closed and returns
PingStop(c) ==
    /\ beat[c].pinger = "wait"
    /\ beat[c].pingDone
    /\ beat' = [beat EXCEPT ![c].pinger = "done"]
    /\ UNCHANGED <<clients, connState, hc, sent, uploads, s3calls, trig, frames,
                   writing, nonSrv>>

\* the pong handler runs on a pong control frame: the read deadline is renewed
PongHandler(c) ==
    /\ hc[c].pc = "read"
    /\ connState[c] = "open"
    /\ beat[c].left > 0
    /\ beat[c].pongs < MaxPongs
    /\ beat' = [beat EXCEPT ![c].left = TimeoutTicks, ![c].ponged = TRUE,
                            ![c].pongs = @ + 1]
    /\ UNCHANGED <<clients, connState, hc, sent, uploads, s3calls, trig, frames,
                   writing, nonSrv>>

\* the read deadline has passed: ReadMessage fails, HandleClient returns
HandleClientTimeout(c) ==
    /\ beat[c].left = 0
    /\ HandleClientReturn(c)
    /\ UNCHANGED <<sent, s3calls, trig, frames, writing, nonSrv>>

(***************************************************************************)
(* Frame writes of the agent: writePump, SendPong, SendResponse, SendStatus *)
(***************************************************************************)
AgentWriters == {"writePump", "SendPong", "SendResponse", "SendStatus"}

NoWriters == [writeMu |-> "", pc |-> [w \in AgentWriters |-> "idle"]]

\* c.writeMu.Lock() returns, the writer enters conn.WriteJSON / WriteMessage
AgentWriteBegin(w) ==
    /\ aw.pc[w] = "idle"
    /\ aw.writeMu = ""
    /\ aw' = [writeMu |-> w, pc |-> [aw.pc EXCEPT ![w] = "write"]]
    /\ UNCHANGED <<srvVars, cliVars, exeVars, auth, pump, ticket>>

\* the write returns, c.writeMu.Unlock()
AgentWriteEnd(w) ==
    /\ aw.pc[w] = "write"
    /\ aw' = [writeMu |-> "", pc |-> [aw.pc EXCEPT ![w] = "idle"]]
    /\ UNCHANGED <<srvVars, cliVars, exeVars, auth, pump, ticket>>

\* one agent on one connection: heartbeat, one command send, the agent's writers
NextBeat ==
    \/ HandleClientStart(XferConn, XferAgent)
    \/ HandleClientExit(XferConn)
    \/ HandleClientTimeout(XferConn)
    \/ Tick(XferConn)
    \/ PingWrite(XferConn)
    \/ PingStop(XferConn)
    \/ PongHandler(XferConn)
    \/ TriggerCheck(XferReq, XferAgent)
    \/ TriggerInitiate(XferReq, "ok")
    \/ TriggerSend(XferReq)
    \/ TriggerWrite(XferReq)
    \/ \E w \in AgentWriters : AgentWriteBegin(w)
    \/ \E w \in AgentWriters : AgentWriteEnd(w)

\* the Ping frames written to connection c so far
PingsSent(c) == {i \in DOMAIN sent[c] : sent[c][i] = PingFrame}

\* the agent's handleMessage on a Ping it has not answered yet: SendPong
\* writes the JSON frame {type: "pong"} (handler.go:553-555, 636-655)
AgentPong(c) ==
    /\ connState[c] = "open"
    /\ frames + Len(wire) < Cardinality(PingsSent(c))
    /\ wire' = Append(wire, [type |-> "pong"])
    /\ UNCHANGED <<srvVars, cliVars, exec, aw, auth, pump, ticket>>

\* HandleClient reads the agent's next frame: ReadMessage returns a data
\* frame, handleMessage processes it (manager.go:200-211)
HandleClientPong(c) ==
    /\ wire # <<>>
    /\ ReadMessage(c, Head(wire))
    /\ wire' = Tail(wire)
    /\ frames' = frames + 1

\* every Ping written to c has been answered and the answer has been read
EveryPingAnswered(c) == wire = <<>> /\ frames = Cardinality(PingsSent(c))

\* the next ping interval passes only after the agent has answered every
\* Ping of the earlier ones and the coordinator has read the answers
TickAnswered(c) == EveryPingAnswered(c) /\ Tick(c)

\* one agent that stays connected on one connection and answers every Ping;
\* the agent writes no websocket pong control frame (it is never sent a ping
\* control frame), so the pong handler is not part of this system
NextAlive ==
    \/ HandleClientStart(XferConn, XferAgent)
    \/ HandleClientTimeout(XferConn)
    \/ TickAnswered(XferConn)
    \/ PingWrite(XferConn)
    \/ PingStop(XferConn)
    \/ AgentPong(XferConn)
    \/ HandleClientPong(XferConn)
    \/ TriggerCheck(XferReq, XferAgent)
    \/ \E o \in {"ok", "createFailed", "presignFailed"} : TriggerInitiate(XferReq, o)
    \/ TriggerSend(XferReq)
    \/ TriggerWrite(XferReq)

(***************************************************************************)
(* Agent connection loop: client/websocket (client.go)                     *)
(***************************************************************************)
ClientConfigs ==
    {[ReconnectDelay |-> b, MaxReconnect |-> m] : b \in {0, 1, 3}, m \in {0, 2, 8}}

\* websocket.NewClient: zero durations take the defaults
NewClient(cfg) ==
    [reconnectDelay |-> IF cfg.ReconnectDelay = 0 THEN DefaultReconnectDelay
                        ELSE cfg.ReconnectDelay,
     maxReconnect |-> IF cfg.MaxReconnect = 0 THEN DefaultMaxReconnect
                      ELSE cfg.MaxReconnect,
     conn |-> "nil", connected |-> FALSE,
     stopChan |-> "open", doneChan |-> "open", ctxDone |-> FALSE,
     doneChan0 |-> "open", fresh |-> FALSE]

NoHist == [fails |-> 0, wait |-> 0, connects |-> 0, failsBefore |-> 0]

\* the doubling of Start with the cap left out
NextBackoff_NoCap(delay, max) == delay * 2

\* Start, after a failed dial's wait: reconnectDelay *= 2, capped at maxReconnect
NextBackoff(delay, max) == IF delay * 2 > max THEN max ELSE delay * 2

\* Start after a connect that keeps the delay the failures left
DelayAfterConnect_NoReset(base, delay) == delay

\* Start, after a successful Connect: reconnectDelay = c.reconnectDelay
DelayAfterConnect(base, delay) == base

\* c.doneChan is the channel of NewClient (doneChan0) until Start replaces it
\* (fresh); Start's "defer close(c.doneChan)" evaluates its argument when the
\* defer statement runs, so it closes doneChan0, while readPump's deferred
\* closure reads c.doneChan when it runs.  Closing a closed channel panics.
CloseDoneChan(c) == IF c.doneChan = "closed" THEN "panic" ELSE "closed"
CloseDeferredChan(c) == IF c.doneChan0 = "closed" THEN "panic" ELSE "closed"
\* a readPump that returns without closing doneChan
DoneChanClosed_Leak(c) == c

DoneChanClosed(c) ==
    [c EXCEPT !.doneChan = "closed", !.doneChan0 = IF c.fresh THEN @ ELSE "closed"]
DeferredChanClosed(c) ==
    [c EXCEPT !.doneChan0 = "closed", !.doneChan = IF c.fresh THEN @ ELSE "closed"]
MakeDoneChan(c) == [c EXCEPT !.doneChan = "open", !.fresh = TRUE]

\* a panic ends the process and every goroutine with it
Alive == start.pc # "panic" /\ readPump # "panic"

\* Client.disconnect: close the connection, connected = false
Disconnect(c) == [c EXCEPT !.conn = "nil", !.connected = FALSE]

\* Start is called: reconnectDelay := c.reconnectDelay
StartBegin ==
    /\ Alive
    /\ start.pc = "init"
    /\ start' = [pc |-> "select", reconnectDelay |-> cli.reconnectDelay]
    /\ UNCHANGED <<cli, readPump, hist, nonCli>>

\* Start returns; the deferred close(c.doneChan) runs
StartReturn(c) ==
    /\ start' = [start EXCEPT !.pc = IF CloseDeferredChan(c) = "panic" THEN "panic"
                                     ELSE "returned"]
    /\ cli' = DeferredChanClosed(c)

\* the select at the top of the loop, and the entry of Connect
StartSelect ==
    /\ Alive
    /\ start.pc = "select"
    /\ IF cli.ctxDone \/ cli.stopChan = "closed"
       THEN StartReturn(cli) /\ UNCHANGED <<readPump, hist, nonCli>>
       ELSE IF cli.connected
       THEN \* Connect returns nil without dialing
            /\ start' = [pc |-> "waitDone",
                         reconnectDelay |-> DelayAfterConnect(cli.reconnectDelay,
                                                              start.reconnectDelay)]
            /\ UNCHANGED <<cli, readPump, hist, nonCli>>
       ELSE /\ start' = [start EXCEPT !.pc = "dialing"]
            /\ UNCHANGED <<cli, readPump, hist, nonCli>>

\* DialContext fails: Start goes to wait reconnectDelay
StartDialFail ==
    /\ Alive
    /\ start.pc = "dialing"
    /\ hist.fails < MaxFails
    /\ start' = [start EXCEPT !.pc = "backoff"]
    /\ hist' = [hist EXCEPT !.fails = @ + 1, !.wait = start.reconnectDelay]
    /\ UNCHANGED <<cli, readPump, nonCli>>

\* DialContext succeeds: conn and connected are set, the pumps start, Start
\* resets its delay and waits for doneChan
StartDialOk ==
    /\ Alive
    /\ start.pc = "dialing"
    /\ ~cli.ctxDone
    /\ cli' = [cli EXCEPT !.conn = "open", !.connected = TRUE]
    /\ readPump' = "running"
    /\ start' = [pc |-> "waitDone",
                 reconnectDelay |-> DelayAfterConnect(cli.reconnectDelay,
                                                      start.reconnectDelay)]
    /\ hist' = [fails |-> 0, wait |-> 0, connects |-> 1, failsBefore |-> hist.fails]
    /\ UNCHANGED nonCli

\* the backoff timer fires: double the delay, cap it, loop
StartBackoffTimer ==
    /\ Alive
    /\ start.pc = "backoff"
    /\ start' = [pc |-> "select",
                 reconnectDelay |-> NextBackoff(start.reconnectDelay, cli.maxReconnect)]
    /\ hist' = [hist EXCEPT !.wait = 0]
    /\ UNCHANGED <<cli, readPump, nonCli>>

\* ctx.Done or stopChan wins the select of the backoff wait
StartBackoffAbort ==
    /\ Alive
    /\ start.pc = "backoff"
    /\ cli.ctxDone \/ cli.stopChan = "closed"
    /\ StartReturn(cli)
    /\ hist' = [hist EXCEPT !.wait = 0]
    /\ UNCHANGED <<readPump, nonCli>>

\* <-c.doneChan returns; a fresh doneChan is made; stop is checked, else
\* Start sleeps reconnectDelay
StartDisconnected ==
    /\ Alive
    /\ start.pc = "waitDone"
    /\ cli.doneChan = "closed"
    /\ IF cli.stopChan = "closed"
       THEN /\ StartReturn(MakeDoneChan(cli))
            /\ UNCHANGED hist
       ELSE /\ start' = [start EXCEPT !.pc = "sleep"]
            /\ cli' = MakeDoneChan(cli)
            /\ hist' = [hist EXCEPT !.wait = start.reconnectDelay]
    /\ UNCHANGED <<readPump, nonCli>>

\* time.Sleep(reconnectDelay) ends
StartWake ==
    /\ Alive
    /\ start.pc = "sleep"
    /\ start' = [start EXCEPT !.pc = "select"]
    /\ hist' = [hist EXCEPT !.wait = 0]
    /\ UNCHANGED <<cli, readPump, nonCli>>

\* readPump leaves its loop (read error, closed connection, cancelled
\* context): disconnect, then close(c.doneChan)
ReadPumpExit ==
    /\ Alive
    /\ readPump = "running"
    /\ readPump' = IF CloseDoneChan(cli) = "panic" THEN "panic" ELSE "exited"
    /\ cli' = DoneChanClosed(Disconnect(cli))
    /\ UNCHANGED <<start, hist, nonCli>>

\* the transport of the connected agent breaks: a read or write on it fails,
\* or the peer closes it
TransportFail ==
    /\ Alive
    /\ readPump = "running"
    /\ cli.conn = "open"
    /\ cli' = [cli EXCEPT !.conn = "failed"]
    /\ UNCHANGED <<start, readPump, hist, nonCli>>

\* Client.Stop: close(c.stopChan), disconnect
Stop ==
    /\ Alive
    /\ cli.stopChan = "open"
    /\ cli' = [Disconnect(cli) EXCEPT !.stopChan = "closed"]
    /\ UNCHANGED <<start, readPump, hist, nonCli>>

\* the context given to Start is cancelled
Cancel ==
    /\ Alive
    /\ ~cli.ctxDone
    /\ cli' = [cli EXCEPT !.ctxDone = TRUE]
    /\ UNCHANGED <<start, readPump, hist, nonCli>>

CliInit ==
    /\ \E cfg \in ClientConfigs : cli = NewClient(cfg)
    /\ start = [pc |-> "init", reconnectDelay |-> 0]
    /\ readPump = "none"
    /\ hist = NoHist

CliNext ==
    \/ StartBegin
    \/ StartSelect
    \/ StartDialFail
    \/ StartDialOk
    \/ StartBackoffTimer
    \/ StartBackoffAbort
    \/ StartDisconnected
    \/ StartWake
    \/ ReadPumpExit
    \/ TransportFail
    \/ Stop
    \/ Cancel

(***************************************************************************)
(* The agent's read loop and its handler tasks: Client.readPump,           *)
(* Client.handleMessage, Client.disconnect, Client.Stop                    *)
(***************************************************************************)
\* the frames the coordinator writes, by type; "unknown" is a frame that
\* handleMessage drops: an unrecognized type or a body that does not decode
InboundFrames == {[type |-> t] : t \in {"command", "ping", "unknown"}}
Inboxes == UNION {[1..n -> InboundFrames] : n \in 0..MaxFrames}

\* inbox: the frames on their way to the agent; rd: how many ReadMessage has
\* returned; running: the handler goroutines counted by handlersWg (by frame
\* index); pongs: the pings answered; stopper: the goroutine inside Stop
NoPump == [inbox |-> <<>>, rd |-> 0, running |-> {}, pongs |-> {}, stopper |-> "idle"]

\* a read loop that handles the frame itself before it reads the next one
PumpCanRead_Inline == readPump = "running" /\ pump.running = {}

\* readPump is blocked in conn.ReadMessage
PumpCanRead == readPump = "running"

\* ReadMessage returns the next frame: handlersWg.Add(1), go handleMessage;
\* the loop then selects on ctx.Done before the next ReadMessage
PumpRead ==
    /\ Alive
    /\ PumpCanRead
    /\ cli.conn = "open"
    /\ pump.rd < Len(pump.inbox)
    /\ pump' = [pump EXCEPT !.rd = @ + 1, !.running = @ \cup {pump.rd + 1}]
    /\ readPump' = IF cli.ctxDone THEN "wait" ELSE "running"
    /\ UNCHANGED <<cli, start, hist, srvVars, exeVars, aw, auth, ticket>>

\* the handler goroutine of ping k: SendPong writes a Pong when there is a
\* connection; handlersWg.Done
HandlePing(k) ==
    /\ Alive
    /\ k \in pump.running
    /\ pump.inbox[k].type = "ping"
    /\ IF cli.conn = "open"
       THEN /\ wire' = Append(wire, [type |-> "pong"])
            /\ pump' = [pump EXCEPT !.running = @ \ {k}, !.pongs = @ \cup {k}]
       ELSE /\ pump' = [pump EXCEPT !.running = @ \ {k}]
            /\ UNCHANGED wire
    /\ UNCHANGED <<cliVars, srvVars, exec, aw, auth, ticket>>

\* a handler that closes the connection on a frame it does not understand
HandleOther_Fatal(k) ==
    /\ Alive
    /\ k \in pump.running
    /\ pump.inbox[k].type # "ping"
    /\ pump' = [pump EXCEPT !.running = @ \ {k}]
    /\ cli' = IF pump.inbox[k].type = "unknown" THEN Disconnect(cli) ELSE cli
    /\ UNCHANGED <<start, readPump, hist, srvVars, exeVars, aw, auth, ticket>>

\* the handler goroutine of another frame returns (HandleCommand has run, or
\* the unknown type was logged); handlersWg.Done
HandleOther(k) ==
    /\ Alive
    /\ k \in pump.running
    /\ pump.inbox[k].type # "ping"
    /\ pump' = [pump EXCEPT !.running = @ \ {k}]
    /\ UNCHANGED <<cliVars, srvVars, exeVars, aw, auth, ticket>>

\* ReadMessage returns an error (peer closed, deadline, connection closed
\* here): the loop returns and the deferred function enters disconnect
PumpLoopExit ==
    /\ Alive
    /\ readPump = "running"
    /\ readPump' = "wait"
    /\ UNCHANGED <<cli, start, hist, pump, srvVars, exeVars, aw, auth, ticket>>

\* disconnect of readPump: handlersWg.Wait returns
PumpWaited ==
    /\ Alive
    /\ readPump = "wait"
    /\ pump.running = {}
    /\ readPump' = "close"
    /\ UNCHANGED <<cli, start, hist, pump, srvVars, exeVars, aw, auth, ticket>>

\* disconnect of readPump: conn.Close, conn = nil, connected = false; then
\* close(c.doneChan)
PumpDisconnect ==
    /\ Alive
    /\ readPump = "close"
    /\ readPump' = IF CloseDoneChan(cli) = "panic" THEN "panic" ELSE "exited"
    /\ cli' = DoneChanClosed(Disconnect(cli))
    /\ UNCHANGED <<start, hist, pump, srvVars, exeVars, aw, auth, ticket>>

\* Client.Stop: close(c.stopChan), then disconnect is entered
StopBegin ==
    /\ Alive
    /\ cli.stopChan = "open"
    /\ pump.stopper = "idle"
    /\ cli' = [cli EXCEPT !.stopChan = "closed"]
    /\ pump' = [pump EXCEPT !.stopper = "wait"]
    /\ UNCHANGED <<start, readPump, hist, srvVars, exeVars, aw, auth, ticket>>

\* disconnect of Stop: handlersWg.Wait returns
StopWaited ==
    /\ Alive
    /\ pump.stopper = "wait"
    /\ pump.running = {}
    /\ pump' = [pump EXCEPT !.stopper = "close"]
    /\ UNCHANGED <<cliVars, srvVars, exeVars, aw, auth, ticket>>

\* disconnect of Stop: conn.Close, conn = nil, connected = false
StopDisconnect ==
    /\ Alive
    /\ pump.stopper = "close"
    /\ cli' = Disconnect(cli)
    /\ pump' = [pump EXCEPT !.stopper = "done"]
    /\ UNCHANGED <<start, readPump, hist, srvVars, exeVars, aw, auth, ticket>>

NextPump ==
    \/ PumpRead
    \/ \E k \in 1..MaxFrames : HandlePing(k)
    \/ \E k \in 1..MaxFrames : HandleOther(k)
    \/ PumpLoopExit
    \/ PumpWaited
    \/ PumpDisconnect
    \/ StopBegin
    \/ StopWaited
    \/ StopDisconnect
    \/ Cancel

(***************************************************************************)
(* Transfer executor: client/handler (HandleCommand) and client/uploader   *)
(***************************************************************************)
\* sizes in MB of the file the agent finds at the path
FileSizes == {12, 95, 97, 100, 104}

\* the download_file commands an agent may be sent: payload.upload_config
\* present or not, upload_id 0 for a missing id, parts the number of presigned
\* URLs of the ticket
Commands ==
    {[type |-> "command", timestamp |-> "now", action |-> "download_file",
      message_id |-> 1, upload_config |-> b, upload_id |-> u, parts |-> n] :
        b \in BOOLEAN, u \in {0, 1}, n \in {0, 2, 3}}

NoCommand ==
    [type |-> "", timestamp |-> "zero", action |-> "", message_id |-> 0,
     upload_config |-> FALSE, upload_id |-> 0, parts |-> 0]

\* a ticket check that accepts a ticket without part URLs
ValidTicket_NoURLCheck(cmd) == cmd.upload_config /\ cmd.upload_id # 0

\* handleDownloadFile, lines 50-64: payload.upload_config is a map, and
\* parseUploadConfig finds an upload id and at least one presigned URL
ValidTicket(cmd) == cmd.upload_config /\ cmd.upload_id # 0 /\ cmd.parts # 0

IdleExec ==
    [pc |-> "idle", rd |-> 0, upload_id |-> 0, parts |-> 0, i |-> 0, fileSize |-> 0,
     etags |-> {}, bytesUploaded |-> 0, outcome |-> "", lost |-> FALSE,
     log |-> <<>>, cmd |-> NoCommand]

\* what the handler goroutine has done so far, in order: the Responses and
\* Status frames it handed to the channel (ev is the Response status, or
\* "status"), GetFileSize ("stat"), file.ReadAt ("read") and the PUT of
\* uploadPart ("put") with the part number, offset and length
Ev(ev, part, offset, size) == [ev |-> ev, part |-> part, offset |-> offset, size |-> size]
Did(ev) == Ev(ev, 0, 0, 0)

\* the ways uploadPart fails: client.Do error, status other than 200, no ETag
\* header
UploadErrors == {"transportErr", "badStatus", "noETag"}

\* Client.SendResponse / SendStatus: conn.WriteJSON(frame); the write fails
\* once the connection is gone
ClientSend(frame) ==
    IF connState[XferConn] = "open" /\ hc[XferConn].pc = "read"
    THEN wire' = Append(wire, frame)
    ELSE UNCHANGED wire

SendLost == ~(connState[XferConn] = "open" /\ hc[XferConn].pc = "read")

\* a Response as the server decodes it.  An in_progress payload is the map
\* {upload_id, file_path, status}; a success payload is the JSON of
\* sharedModels.DownloadFileResponse {upload_id, file_path, file_size,
\* total_parts, completed_parts, start_time, end_time, s3_key}, which has no
\* etags member; an error Response has no payload.
ResponseMessage(status, payload, errMsg) ==
    [type |-> "response", status |-> status, action |-> "download_file",
     payload |-> payload, error |-> errMsg]

NilPayload == [kind |-> "nil", upload_id |-> 0, hasEtags |-> FALSE, etags |-> {}]
InProgressPayload(uploadID) ==
    [kind |-> "map", upload_id |-> uploadID, hasEtags |-> FALSE, etags |-> {}]
DownloadFileResponse(result) ==
    [kind |-> "map", upload_id |-> result.upload_id, hasEtags |-> FALSE, etags |-> {}]

StatusMessage(uploadID, partNumber, bytesUploaded) ==
    [type |-> "status",
     current_upload |-> [present |-> TRUE, upload_id |-> uploadID,
                         completed_parts |-> partNumber,
                         bytes_uploaded |-> bytesUploaded]]

\* CommandHandler.sendErrorResponse: an error Response with a nil payload
\* and the handler carries on after it
sendErrorResponse_NoReturn(e, errMsg) ==
    /\ ClientSend(ResponseMessage("error", NilPayload, errMsg))
    /\ exec' = [e EXCEPT !.outcome = "error", !.i = @ + 1,
                         !.lost = @ \/ SendLost,
                         !.log = Append(@, Did("error"))]

\* and the handler returns; e is the handler's state at the call
sendErrorResponse(e, errMsg) ==
    /\ ClientSend(ResponseMessage("error", NilPayload, errMsg))
    /\ exec' = [e EXCEPT !.pc = "done", !.outcome = "error",
                         !.lost = @ \/ SendLost,
                         !.log = Append(@, Did("error"))]

\* readPump reads the next command and starts its handler goroutine;
\* handleDownloadFile parses the payload (parseUploadConfig)
handleDownloadFile(cmd) ==
    IF ~ValidTicket(cmd)
    THEN sendErrorResponse([exec EXCEPT !.rd = @ + 1, !.cmd = cmd],
                           IF cmd.upload_config THEN "failed to parse upload config"
                           ELSE "missing upload_config")
    ELSE /\ exec' = [exec EXCEPT !.pc = "announce", !.rd = @ + 1, !.cmd = cmd,
                                 !.upload_id = cmd.upload_id, !.parts = cmd.parts]
         /\ UNCHANGED wire

ExecReceive ==
    /\ exec.pc = "idle"
    /\ Len(sent[XferConn]) > exec.rd
    /\ handleDownloadFile(sent[XferConn][exec.rd + 1])
    /\ UNCHANGED <<srvVars, cliVars, aw, auth, pump, ticket>>

\* a download_file command of any shape reaches the agent
ExecDeliver(cmd) ==
    /\ exec.pc = "idle"
    /\ exec.rd = 0
    /\ handleDownloadFile(cmd)
    /\ UNCHANGED <<srvVars, cliVars, aw, auth, pump, ticket>>

\* the handler goes on to the file without the in_progress Response
ExecInProgress_Silent ==
    /\ exec.pc = "announce"
    /\ exec' = [exec EXCEPT !.pc = "stat"]
    /\ UNCHANGED <<wire, srvVars, cliVars, aw, auth, pump, ticket>>

\* handler.go:77-88: the in_progress Response
ExecInProgress ==
    /\ exec.pc = "announce"
    /\ ClientSend(ResponseMessage("in_progress", InProgressPayload(exec.upload_id), ""))
    /\ exec' = [exec EXCEPT !.pc = "stat", !.lost = @ \/ SendLost,
                            !.log = Append(@, Did("in_progress"))]
    /\ UNCHANGED <<srvVars, cliVars, aw, auth, pump, ticket>>

\* uploader.GetFileSize, then Upload opens and stats the file
ExecStat(size) ==
    /\ exec.pc = "stat"
    /\ exec' = [exec EXCEPT !.pc = "upload", !.fileSize = size, !.i = 1,
                            !.log = Append(@, Did("stat"))]
    /\ UNCHANGED <<wire, srvVars, cliVars, aw, auth, pump, ticket>>

ExecStatFail ==
    /\ exec.pc = "stat"
    /\ sendErrorResponse([exec EXCEPT !.log = Append(@, Did("stat"))],
                         "failed to get file size")
    /\ UNCHANGED <<srvVars, cliVars, aw, auth, pump, ticket>>

\* Upload, lines 163-170: the size of part partNumber
PartSize(partNumber, chunkSize, fileSize) ==
    LET offset == (partNumber - 1) * chunkSize IN
    IF offset + chunkSize > fileSize THEN fileSize - offset ELSE chunkSize

\* one turn of the loop over the presigned URLs (part numbers 1..parts in the
\* order of the ticket).  make([]byte, partSize) panics on a negative size.
ExecPart(outcome) ==
    /\ exec.pc = "upload"
    /\ exec.i <= exec.parts
    /\ LET partNumber == exec.i
           offset == (partNumber - 1) * DefaultChunkSize
           partSize == PartSize(partNumber, DefaultChunkSize, exec.fileSize)
           read == Ev("read", partNumber, offset, partSize)
           put == Ev("put", partNumber, offset, partSize)
       IN IF partSize < 0
          THEN /\ exec' = [exec EXCEPT !.pc = "panic"]
               /\ UNCHANGED wire
          ELSE IF outcome = "ok"
          THEN /\ ClientSend(StatusMessage(exec.upload_id, partNumber,
                                           exec.bytesUploaded + partSize))
               /\ exec' = [exec EXCEPT !.i = @ + 1,
                                       !.etags = @ \cup {partNumber},
                                       !.bytesUploaded = @ + partSize,
                                       !.lost = @ \/ SendLost,
                                       !.log = @ \o <<read, put, Did("status")>>]
          ELSE sendErrorResponse(
                   [exec EXCEPT !.log = @ \o (IF outcome = "readErr" THEN <<read>>
                                              ELSE <<read, put>>)],
                   "upload failed")
    /\ UNCHANGED <<srvVars, cliVars, aw, auth, pump, ticket>>

\* handler.go:129-146: every part is uploaded, the success Response
ExecSuccess ==
    /\ exec.pc = "upload"
    /\ exec.i > exec.parts
    /\ ClientSend(ResponseMessage("success", DownloadFileResponse(exec), ""))
    /\ exec' = [exec EXCEPT !.pc = "done", !.outcome = "success",
                            !.lost = @ \/ SendLost,
                            !.log = Append(@, Did("success"))]
    /\ UNCHANGED <<srvVars, cliVars, aw, auth, pump, ticket>>

ExeInit ==
    /\ exec = IdleExec /\ wire = <<>> /\ aw = NoWriters /\ auth = NoAuth
    /\ pump = NoPump /\ ticket = NoTicket

NextE2E ==
    \/ HandleClientStart(XferConn, XferAgent)
    \/ HandleClientRecv(XferConn)
    \/ HandleClientExit(XferConn)
    \/ TriggerCheck(XferReq, XferAgent)
    \/ \E o \in {"ok", "createFailed", "presignFailed"} : TriggerInitiate(XferReq, o)
    \/ TriggerSend(XferReq)
    \/ TriggerWrite(XferReq)
    \/ ExecReceive
    \/ ExecInProgress
    \/ \E size \in FileSizes : ExecStat(size)
    \/ ExecStatFail
    \/ \E o \in {"ok", "readErr"} \cup UploadErrors : ExecPart(o)
    \/ ExecSuccess

\* the agent's executor given any download_file command, its channel to the
\* coordinator up or down
NextExec ==
    \/ HandleClientStart(XferConn, XferAgent)
    \/ HandleClientRecv(XferConn)
    \/ HandleClientExit(XferConn)
    \/ \E cmd \in Commands : ExecDeliver(cmd)
    \/ ExecInProgress
    \/ \E size \in FileSizes : ExecStat(size)
    \/ ExecStatFail
    \/ \E o \in {"ok", "readErr"} \cup UploadErrors : ExecPart(o)
    \/ ExecSuccess

(***************************************************************************)
(* Specifications                                                          *)
(***************************************************************************)
\* an agent that is never started
IdleClient ==
    /\ cli = NewClient([ReconnectDelay |-> 0, MaxReconnect |-> 0])
    /\ start = [pc |-> "init", reconnectDelay |-> 0]
    /\ readPump = "none"
    /\ hist = NoHist

Init == SrvInit /\ IdleClient /\ ExeInit
Next == SrvNext
Spec == Init /\ [][Next]_vars

NextCross == SrvNextCross
SpecCross == Init /\ [][NextCross]_vars

InitXfer == SrvInit /\ IdleClient /\ ExeInit
NextXfer == SrvNextXfer
SpecXfer == InitXfer /\ [][NextXfer]_vars

InitClient == SrvInit /\ CliInit /\ ExeInit
NextClient == CliNext
SpecClient == InitClient /\ [][NextClient]_vars

\* the goroutines of the agent are scheduled, and a read on a transport that
\* is broken or closed returns its error; nothing is assumed of the timers
SpecClientFair ==
    /\ SpecClient
    /\ WF_vars(StartSelect)
    /\ WF_vars(StartBackoffAbort)
    /\ WF_vars(StartDisconnected)
    /\ WF_vars(ReadPumpExit /\ cli.conn # "open")

\* and the timers of Start fire
SpecClientTimed ==
    /\ SpecClientFair
    /\ WF_vars(StartBackoffTimer)
    /\ WF_vars(StartWake)

InitBeat == SrvInit /\ IdleClient /\ ExeInit
SpecBeat == InitBeat /\ [][NextBeat]_vars
SpecBeatFair ==
    /\ SpecBeat
    /\ WF_vars(Tick(XferConn))
    /\ WF_vars(PingWrite(XferConn))
    /\ WF_vars(HandleClientTimeout(XferConn))

InitAlive == SrvInit /\ IdleClient /\ ExeInit
SpecAlive == InitAlive /\ [][NextAlive]_vars

AuthInit ==
    /\ auth \in [tokenManager : BOOLEAN, attempt : [Conns -> Attempts]]
    /\ exec = IdleExec /\ wire = <<>> /\ aw = NoWriters /\ pump = NoPump
    /\ ticket = NoTicket

InitAuth == SrvInit /\ IdleClient /\ AuthInit
SpecAuth == InitAuth /\ [][NextAuth]_vars

\* a connected agent: Connect has started readPump, Start waits for doneChan
PumpInit ==
    /\ cli = [NewClient([ReconnectDelay |-> 0, MaxReconnect |-> 0])
                EXCEPT !.conn = "open", !.connected = TRUE]
    /\ start = [pc |-> "waitDone", reconnectDelay |-> cli.reconnectDelay]
    /\ readPump = "running"
    /\ hist = NoHist
    /\ exec = IdleExec /\ wire = <<>> /\ aw = NoWriters /\ auth = NoAuth
    /\ ticket = NoTicket
    /\ \E inbox \in Inboxes : pump = [NoPump EXCEPT !.inbox = inbox]

InitPump == SrvInit /\ PumpInit
SpecPump == InitPump /\ [][NextPump]_vars
SpecPumpFair ==
    /\ SpecPump
    /\ WF_vars(PumpRead)
    /\ \A k \in 1..MaxFrames : WF_vars(HandlePing(k))

\* the two read loops, each on its own: a behaviour is a run of the
\* coordinator's HandleClient fed with arbitrary frames (no agent process), or
\* a run of a connected agent's readPump
InitFrames == InitXfer \/ InitPump
NextFrames ==
    \/ readPump = "none" /\ NextXfer
    \/ readPump # "none" /\ NextPump
SpecFrames == InitFrames /\ [][NextFrames]_vars

InitExec == SrvInit /\ IdleClient /\ ExeInit
SpecExec == InitExec /\ [][NextExec]_vars

TicketInit ==
    /\ exec = IdleExec /\ wire = <<>> /\ aw = NoWriters /\ auth = NoAuth
    /\ pump = NoPump
    /\ \E cfg \in TicketConfigs : ticket = [NoTicket EXCEPT !.pc = "new", !.cfg = cfg]

InitTicket == SrvInit /\ IdleClient /\ TicketInit
SpecTicket == InitTicket /\ [][NextTicket]_vars

InitE2E == SrvInit /\ IdleClient /\ ExeInit
SpecE2E == InitE2E /\ [][NextE2E]_vars

(***************************************************************************)
(* Claims                                                                  *)
(***************************************************************************)
CompleteCalls(u) == {i \in DOMAIN s3calls : s3calls[i].op = "complete" /\ s3calls[i].upload = u}
AbortCalls(u) == {i \in DOMAIN s3calls : s3calls[i].op = "abort" /\ s3calls[i].upload = u}
CallsFor(u) == {i \in DOMAIN s3calls : s3calls[i].upload = u}
NoCommandFor(u) == \A c \in Conns : \A i \in DOMAIN sent[c] : sent[c][i].upload_id # u

AtMostOneHandle == \A id \in AgentIds : Cardinality(HandlesOf(id)) <= 1

ReRegisterClosesOld ==
    \A id \in AgentIds, c1 \in Conns, c2 \in Conns :
        (/\ c1 # c2
         /\ [id |-> id, conn |-> c1] \in clients
         /\ [id |-> id, conn |-> c2] \in clients')
        => /\ connState'[c1] = "closed"
           /\ {h \in clients' : h.id = id} = {[id |-> id, conn |-> c2]}

\* C1: the registry never holds more than one handle for an agent id, and a
\* step that registers connection c2 for an id registered with c1 closes c1
\* and leaves c2 as the only handle of that id.
C1_OneHandlePerAgent == []AtMostOneHandle /\ [][ReRegisterClosesOld]_vars

\* a second registration happened: c1 was closed under its still reading
\* handler and c2 is the registered handle of the same agent
C1_Witness ==
    \E c1 \in Conns, c2 \in Conns :
        /\ c1 # c2
        /\ hc[c1].pc = "read" /\ hc[c2].pc = "read"
        /\ hc[c1].clientID = hc[c2].clientID
        /\ connState[c1] = "closed" /\ connState[c2] = "open"
        /\ [id |-> hc[c2].clientID, conn |-> c2] \in clients

\* C2: a record whose status is completed, failed or cancelled keeps that
\* status in every later step.
C2_TerminalIsFinal ==
    [][\A u \in UploadIds :
          uploads[u].Status \in Terminal => uploads'[u].Status = uploads[u].Status]_vars

\* C3: the blob store's complete-multipart operation is invoked at most once
\* for every transfer id.
C3_CompleteAtMostOnce == \A u \in UploadIds : Cardinality(CompleteCalls(u)) <= 1

ParsedPartNumbers(raw) == {Sscanf(kv[1]).n : kv \in {x \in raw : Sscanf(x[1]).ok}}

\* C4: every part list passed to complete-multipart is strictly ascending by
\* part number and holds exactly one entry, with a reported digest, for each
\* part number of the digest map of the success Response it was made for,
\* whatever the order in which the map entries are enumerated.
C4_CompletionPartsSorted ==
    \A i \in DOMAIN s3calls :
        s3calls[i].op = "complete" =>
            LET parts == s3calls[i].parts
                nums == ParsedPartNumbers(s3calls[i].digests)
            IN /\ Len(parts) > 0
               /\ StrictlyAscending(parts)
               /\ {parts[k].PartNumber : k \in DOMAIN parts} = nums
               /\ Len(parts) = Cardinality(nums)
               /\ \A k \in DOMAIN parts :
                     <<parts[k].PartNumber, parts[k].ETag>> \in
                         {<<Sscanf(kv[1]).n, kv[2]>> : kv \in s3calls[i].digests}

\* a completion was invoked with three parts
C4_Witness ==
    \E i \in DOMAIN s3calls : s3calls[i].op = "complete" /\ Len(s3calls[i].parts) = 3

\* the executor has finished, every frame it wrote reached the coordinator and
\* has been handled
ExecSettled ==
    /\ exec.pc = "done"
    /\ ~exec.lost
    /\ wire = <<>>
    /\ hc[XferConn].pc = "read"

\* the completion call the uploaded parts 1..n ask for
CompletedInOrder(u, n) ==
    \E i \in CompleteCalls(u) :
        /\ Len(s3calls[i].parts) = n
        /\ \A k \in 1..n : s3calls[i].parts[k].PartNumber = k

\* C5: when every part upload of a triggered transfer has succeeded and the
\* agent's frames have been handled, blob-store completion has been invoked
\* for the transfer with the parts 1..n in order and the record is Completed.
C5_SuccessCompletesUpload ==
    (ExecSettled /\ exec.outcome = "success") =>
        /\ CompletedInOrder(exec.upload_id, exec.parts)
        /\ uploads[exec.upload_id].Status = "completed"

\* C6: when a part upload of a triggered transfer has failed, the executor
\* has sent an error Response and no success Response, and once the
\* coordinator has handled it the session is aborted and the record is Failed.
C6_PartFailureAborts ==
    (ExecSettled /\ exec.outcome = "error" /\ exec.i >= 1) =>
        /\ AbortCalls(exec.upload_id) # {}
        /\ uploads[exec.upload_id].Status = "failed"

\* C7: completed-parts count equals the number of entries of the digest map.
C7_CompletedPartsMatchDigests ==
    \A u \in UploadIds :
        uploads[u].exists => uploads[u].CompletedParts = Cardinality(DOMAIN uploads[u].ETags)

NotConnectedLeavesNothing ==
    \A r \in Reqs :
        trig[r].result = "NotConnected" =>
            /\ trig[r].pc = "done"
            /\ ~uploads[r].exists
            /\ CallsFor(r) = {}
            /\ NoCommandFor(r)

NotConnectedStep ==
    \A r \in Reqs :
        (/\ trig[r].pc = "idle"
         /\ trig'[r].pc # "idle"
         /\ ~IsClientConnected(trig'[r].clientID))
        => /\ trig'[r].pc = "done"
           /\ trig'[r].result = "NotConnected"
           /\ UNCHANGED <<clients, connState, hc, sent, uploads, s3calls>>

\* C8: a trigger request for an agent id with no registered handle ends at
\* once with NotConnected, and changes nothing else: no record, no blob-store
\* call, no command, for that request.
C8_NotConnectedNoEffect == []NotConnectedLeavesNothing /\ [][NotConnectedStep]_vars

\* a request was refused while another agent was registered
C8_Witness ==
    \E r \in Reqs : trig[r].result = "NotConnected" /\ clients # {}

RECURSIVE Pow2(_)
Pow2(n) == IF n = 0 THEN 1 ELSE 2 * Pow2(n - 1)
Min(a, b) == IF a < b THEN a ELSE b

\* C9 as stated: while Start waits after its N-th consecutive failed dial, the
\* wait is min(base * 2^N, cap).
C9_WaitAfterNFailures ==
    start.pc = "backoff" =>
        hist.wait = Min(cli.reconnectDelay * Pow2(hist.fails), cli.maxReconnect)

\* C9 amended: while Start waits after its N-th consecutive failed dial
\* (N >= 1), the wait is base for N = 1 and min(base * 2^(N-1), cap) for
\* N >= 2: the delay is doubled after each wait, not before the first.
C9_WaitAfterNFailuresAmended ==
    start.pc = "backoff" =>
        /\ hist.fails >= 1
        /\ hist.wait = IF hist.fails = 1 THEN cli.reconnectDelay
                       ELSE Min(cli.reconnectDelay * Pow2(hist.fails - 1), cli.maxReconnect)

\* Start waits after a fourth consecutive failure, and the cap cut the delay
C9_Witness ==
    /\ start.pc = "backoff"
    /\ hist.fails = 4
    /\ hist.wait = cli.maxReconnect
    /\ cli.reconnectDelay * Pow2(3) > cli.maxReconnect
    /\ cli.reconnectDelay < cli.maxReconnect

\* C10: after a successful connect Start holds the base delay, and the next
\* wait, be it the sleep after the disconnection or the wait after the next
\* failed dial, lasts the base delay.
C10_ResetAfterConnect ==
    /\ start.pc = "waitDone" => start.reconnectDelay = cli.reconnectDelay
    /\ start.pc = "sleep" => hist.wait = cli.reconnectDelay
    /\ (start.pc = "backoff" /\ hist.connects = 1 /\ hist.fails = 1)
          => hist.wait = cli.reconnectDelay

\* Start sleeps after losing a connection that was made after three failed
\* dials had doubled the delay
C10_Witness ==
    /\ start.pc = "sleep"
    /\ hist.failsBefore = 3
    /\ hist.wait = cli.reconnectDelay
    /\ cli.reconnectDelay * 2 <= cli.maxReconnect

\* C11: once Stop has been called the agent holds no live connection
\* (transport closed, connected = false) and Start ends by returning, in every
\* interleaving of Stop with the Start loop.
C11_StopLeavesNoConnection ==
    cli.stopChan = "closed" =>
        /\ cli.conn = "nil"
        /\ ~cli.connected
        /\ start.pc # "panic"

\* C12: on every channel at most one frame write is in progress at any
\* instant, on the coordinator side (command sends, pings) and on the agent
\* side (heartbeat probe, pong, Response and Status sends).
C12_OneWriteAtATime ==
    /\ \A c \in Conns : Cardinality(writing[c]) <= 1
    /\ Cardinality({w \in AgentWriters : aw.pc[w] = "write"}) <= 1

\* the ping routine of a registered channel is alive and has pinged once an
\* interval has passed
PingsWhileRegistered ==
    \A c \in Conns :
        hc[c].pc = "read" =>
            /\ beat[c].pinger \in {"wait", "write"}
            /\ beat[c].left < TimeoutTicks => beat[c].pings

\* C13: a registered channel is pinged every interval, and when no pong
\* arrives within the timeout window it is eventually unregistered: the
\* agent id is no longer connected.
C13_DeadChannelUnregistered ==
    /\ []PingsWhileRegistered
    /\ \A c \in Conns, id \in AgentIds :
          (hc[c].pc = "read" /\ hc[c].clientID = id /\ ~beat[c].ponged)
              ~> (beat[c].ponged \/ ~IsClientConnected(id))

\* a channel that was pinged, got one pong, and then ran into its read
\* deadline is unregistered
C13_Witness ==
    \E c \in Conns :
        /\ hc[c].pc = "done"
        /\ beat[c].left = 0
        /\ beat[c].pings
        /\ beat[c].pongs = 1
        /\ ~IsClientConnected(hc[c].clientID)

\* a connection is closed or a handle leaves the registry in this step
ChannelLost ==
    \/ \E c \in Conns : connState[c] = "open" /\ connState'[c] = "closed"
    \/ \E h \in clients : h \notin clients'

\* C14: a step that loses or unregisters a channel changes no transfer
\* record, and the status of a record changes only in a step that handles an
\* inbound frame: without a Response it keeps its non-terminal status.
C14_ChannelLossKeepsRecords ==
    [][/\ ChannelLost => uploads' = uploads
       /\ \A u \in UploadIds :
            (uploads[u].exists /\ uploads'[u].Status # uploads[u].Status)
                => frames' = frames + 1]_vars

\* the channel of the agent is gone while its transfer is still pending
C14_Witness ==
    \E u \in UploadIds :
        /\ uploads[u].exists
        /\ uploads[u].Status = "pending"
        /\ ~IsClientConnected(uploads[u].ClientID)
        /\ \E c \in Conns : hc[c].pc = "done" /\ hc[c].clientID = uploads[u].ClientID

\* C15: handling a Status frame changes nothing but the bytes-uploaded and
\* completed-parts counters of the record it names, and changes nothing at all
\* when that record is already Completed, Failed or Cancelled.
C15_StatusOnlyCounters ==
    [][\A msg \in StatusFrames :
          HandleClientRead(XferConn, msg) =>
              \A u \in UploadIds :
                  /\ uploads'[u] = [uploads[u] EXCEPT
                                      !.BytesUploaded = uploads'[u].BytesUploaded,
                                      !.CompletedParts = uploads'[u].CompletedParts]
                  /\ (u # msg.current_upload.upload_id \/ uploads[u].Status \in Terminal)
                        => uploads'[u] = uploads[u]]_vars

\* the blob-store call made in this step, if one was made
CallMade == Len(s3calls') = Len(s3calls) + 1
NewCall == s3calls'[Len(s3calls')]

\* C16: when the blob store rejects the completion call made for a success
\* Response, the record is left Failed with the completion error as its
\* reason, which is none of the reasons an executor reports.
C16_CompletionFailureMarksFailed ==
    [][(CallMade /\ NewCall.op = "complete" /\ ~NewCall.ok) =>
          LET u == NewCall.upload IN
          /\ uploads'[u].Status = "failed"
          /\ uploads'[u].Error = CompleteErr
          /\ uploads'[u].EndTime
          /\ CompleteErr \notin ErrTexts]_vars

\* a completion call was rejected and the record is Failed with that reason
C16_Witness ==
    /\ s3calls # <<>>
    /\ LET c == s3calls[Len(s3calls)] IN
       /\ c.op = "complete"
       /\ ~c.ok
       /\ uploads[c.upload].Status = "failed"
       /\ uploads[c.upload].Error = CompleteErr

\* the error and cancelled Responses that name a transfer
ErrorFrames ==
    {m \in ResponseFrames : m.status \in {"error", "cancelled"} /\ m.payload.kind = "map"
                            /\ m.payload.upload_id \in UploadIds}

BadCredential(c) ==
    LET a == auth.attempt[c] IN
    \/ a.token.kind \in {"invalid", "expired"}
    \/ a.token.kind = "valid" /\ a.token.ClientID # a.id

\* the attempt c is answered in this step
Answered(c) == connState[c] = "new" /\ connState'[c] # "new"

\* the attempt c is turned down in this step: the registry and every other
\* connection stay as they are
Rejected(c) ==
    /\ connState'[c] = "rejected"
    /\ clients' = clients
    /\ \A d \in Conns \ {c} : connState'[d] = connState[d]

\* C18 as stated: an attempt with a bad credential is rejected before
\* registration.
C18_BadCredentialRejected ==
    [][\A c \in Conns : (Answered(c) /\ BadCredential(c)) => Rejected(c)]_vars

\* C18 amended: when a token validator is configured, an attempt with a bad
\* credential is rejected before registration; no handle is created or
\* replaced and an existing handle of the agent id stays open.
C18_BadCredentialRejectedAmended ==
    [][\A c \in Conns :
          (auth.tokenManager /\ Answered(c) /\ BadCredential(c)) => Rejected(c)]_vars

\* a validator is configured, an attempt for an agent id was rejected for its
\* credential, and the handle the agent id already had is still open
C18_Witness ==
    \E c \in Conns :
        /\ auth.tokenManager
        /\ BadCredential(c)
        /\ connState[c] = "rejected"
        /\ \E h \in HandlesOf(auth.attempt[c].id) : connState[h.conn] = "open"

\* C19: with a token validator configured, every handle of the registry is
\* held by a connection that presented a valid credential for its agent id.
C19_RegisteredMeansAuthenticated ==
    auth.tokenManager =>
        \A h \in clients :
            /\ auth.attempt[h.conn].token.kind = "valid"
            /\ auth.attempt[h.conn].token.ClientID = h.id

\* the frame SendCommand writes for request r
StampedFrame(r, f) ==
    /\ f.type = "command" /\ f.timestamp = "now"
    /\ f.message_id = r /\ f.action = "download_file"

\* exactly one frame, the stamped command of r, is appended to channel c and
\* no other channel is written
OneFrameOn(r, c) ==
    /\ Len(sent'[c]) = Len(sent[c]) + 1
    /\ SubSeq(sent'[c], 1, Len(sent[c])) = sent[c]
    /\ StampedFrame(r, sent'[c][Len(sent'[c])])
    /\ \A d \in Conns \ {c} : sent'[d] = sent[d]

\* SendCommand of request r finds no handle in this step
SendNoHandle(r) ==
    /\ trig[r].pc = "send" /\ trig'[r].pc # "send"
    /\ HandlesOf(trig[r].clientID) = {}

\* SendCommand of request r returns from its write in this step
SendReturns(r) == trig[r].pc = "write" /\ trig'[r].pc = "done"

NotConnectedWritesNothing(r) ==
    SendNoHandle(r) =>
        /\ trig'[r].result = "SendNotConnected"
        /\ sent' = sent /\ clients' = clients /\ connState' = connState

Events(log, ev) == {k \in DOMAIN log : log[k].ev = ev}

\* the handler of the command returns from a complete part loop in this step
SuccessStep == exec.pc = "upload" /\ exec'.pc = "done" /\ exec'.outcome = "success"

\* C21: when every part upload of a download_file command has succeeded, the
\* executor sends exactly one success Response for the command, and its
\* payload carries the transfer id and a digest for every uploaded part, keyed
\* by the part's number.
C21_SuccessCarriesDigests ==
    [][SuccessStep =>
          /\ Cardinality(Events(exec'.log, "success")) = 1
          /\ Events(exec'.log, "error") = {}
          /\ ~SendLost =>
                /\ Len(wire') = Len(wire) + 1
                /\ LET f == wire'[Len(wire')] IN
                   /\ f.type = "response" /\ f.status = "success"
                   /\ f.payload.kind = "map"
                   /\ f.payload.upload_id = exec.upload_id
                   /\ f.payload.hasEtags
                   /\ ParsedPartNumbers(f.payload.etags) = exec.etags]_vars

\* a part of the command fails in this step: ReadAt or uploadPart returns an
\* error
PartFailStep == exec.pc = "upload" /\ exec'.outcome = "error"

\* C22: when a part of a download_file command fails (read error, transport
\* error, non-success upload status or missing digest), the executor hands
\* exactly one error Response to the channel, written as one frame when the
\* channel is up, no success Response, and from then on uploads no part and
\* sends no further Response for the command.
C22_PartFailureOneError ==
    [][/\ PartFailStep =>
            /\ Cardinality(Events(exec'.log, "error")) = 1
            /\ Events(exec'.log, "success") = {}
            /\ exec'.log[Len(exec'.log)].ev = "error"
            /\ \A k \in Events(exec'.log, "put") : exec'.log[k].part <= exec.i
            /\ ~SendLost =>
                  /\ Len(wire') = Len(wire) + 1
                  /\ LET f == wire'[Len(wire')] IN
                     f.type = "response" /\ f.status = "error" /\ f.error \in ErrTexts
       /\ exec.outcome = "error" =>
            \A ev \in {"read", "put", "success", "error"} :
                Events(exec'.log, ev) = Events(exec.log, ev)]_vars

\* the third part failed in its PUT after two parts were uploaded, and the
\* error Response reached the channel
C22_Witness ==
    /\ exec.pc = "done" /\ exec.outcome = "error" /\ ~exec.lost
    /\ Cardinality(Events(exec.log, "put")) = 3
    /\ Cardinality(Events(exec.log, "status")) = 2

\* ceil(S / C)
PartsNeeded(S, C) == (S + C - 1) \div C

\* C23: for a file of size S, chunk size C and a ticket of P >= ceil(S/C)
\* parts, the executor uploads exactly the parts 1..ceil(S/C), part p carrying
\* the bytes [(p-1)*C, min(p*C, S)); for the ticket parts beyond ceil(S/C) it
\* attempts no upload and computes no negative read length.
C23_UploadsExactlyNeededParts ==
    LET S == exec.fileSize
        C == DefaultChunkSize
        n == PartsNeeded(S, C)
        puts == {exec.log[k] : k \in Events(exec.log, "put")}
    IN (exec.pc \in {"upload", "done", "panic"} /\ exec.parts >= n) =>
          /\ exec.pc # "panic"
          /\ \A e \in puts :
                /\ e.part \in 1..n
                /\ e.offset = (e.part - 1) * C
                /\ e.size = Min(e.part * C, S) - e.offset
                /\ e.size > 0
          /\ exec.outcome = "success" =>
                /\ {e.part : e \in puts} = 1..n
                /\ exec.bytesUploaded = S

\* the in_progress Responses and the progress Status frames that name a
\* transfer, and the transfer they name
ProgressFrames ==
    {m \in ResponseFrames : m.status = "in_progress" /\ m.action = "download_file"
                            /\ m.payload.kind = "map" /\ m.payload.upload_id \in UploadIds}
    \cup {m \in StatusFrames : m.current_upload.present
                               /\ m.current_upload.upload_id \in UploadIds}

NamedUpload(m) ==
    IF m.type = "response" THEN m.payload.upload_id ELSE m.current_upload.upload_id

\* C24: a Pending record becomes InProgress when the coordinator handles the
\* first in_progress Response or progress Status frame that names it.
C24_AcknowledgedIsInProgress ==
    [][\A msg \in ProgressFrames :
          LET u == NamedUpload(msg) IN
          (HandleClientRead(XferConn, msg) /\ uploads[u].exists
              /\ uploads[u].Status = "pending") =>
              uploads'[u].Status = "in_progress"]_vars

\* ping k is on its way to a connected agent whose read loop is running
PingPending(k) ==
    /\ k \in DOMAIN pump.inbox /\ pump.inbox[k].type = "ping"
    /\ k \notin pump.pongs

\* the channel is going down: the read loop has left its loop, the transport
\* is closed, or the process has ended
ChannelDown == readPump # "running" \/ cli.conn # "open" \/ ~Alive

C26_CloseAfterHandlers ==
    [][(cli.conn = "open" /\ cli'.conn = "nil") => pump.running = {}]_vars

\* Start is waiting before a reconnect attempt: after a failed dial (the
\* select on the backoff timer) or after a lost connection (time.Sleep)
StartWaiting == start.pc \in {"backoff", "sleep"}

\* C27: if Stop is requested while Start waits before a reconnect attempt,
\* after a failed dial or after a lost connection, the wait ends without the
\* timer having to fire, Start returns, and it does not dial again.
C27_StopEndsWait ==
    /\ (StartWaiting /\ cli.stopChan = "closed") ~> (start.pc = "returned")
    /\ [][(StartWaiting /\ cli.stopChan = "closed") => start'.pc # "dialing"]_vars

\* the transport of the connected agent is broken and no stop was requested
Broken == cli.conn = "failed" /\ cli.connected /\ cli.stopChan = "open"

\* C28: when the transport of a Connected agent fails or is closed by the
\* peer and no stop was requested, the agent eventually leaves Connected and
\* eventually dials afresh, unless a stop or a cancellation is requested in
\* the meantime.
C28_FailureLeadsToRedial ==
    /\ Broken ~> ~cli.connected
    /\ Broken ~> (start.pc = "dialing" \/ cli.stopChan = "closed" \/ cli.ctxDone)

\* after a broken transport the agent has left Connected and is dialing
\* again, with neither stop nor cancellation requested
C28_Witness ==
    /\ start.pc = "dialing" /\ readPump = "exited" /\ ~cli.connected
    /\ cli.fresh /\ cli.stopChan = "open" /\ ~cli.ctxDone

\* the positions <<c, i>> of the command frames written for transfer u
CommandsFor(snt, u) ==
    UNION {{<<c, i>> : i \in {j \in DOMAIN snt[c] :
                                /\ snt[c][j].type = "command"
                                /\ (snt[c][j].upload_id = u \/ snt[c][j].message_id = u)}} :
           c \in Conns}

\* C29: in a successful trigger the record is registered, Pending, before the
\* download_file command is written; exactly one command is sent, and its
\* message id and its ticket's transfer id are the transfer id returned to
\* the caller.
C29_RegisteredBeforeCommand ==
    [][\A r \in Reqs :
          /\ CommandsFor(sent', r) # CommandsFor(sent, r) =>
                uploads[r].exists /\ uploads[r].Status = "pending"
          /\ (trig'[r].pc = "done" /\ trig'[r].result = "OK") =>
                /\ Cardinality(CommandsFor(sent', r)) = 1
                /\ \A ci \in CommandsFor(sent', r) :
                      LET f == sent'[ci[1]][ci[2]] IN
                      /\ f.action = "download_file"
                      /\ f.message_id = TriggerDownloadResponse(r).UploadID
                      /\ f.upload_id = TriggerDownloadResponse(r).UploadID
                /\ uploads'[r].exists]_vars

\* a trigger has succeeded: its command is on the agent's channel and its
\* record is Pending
C29_Witness ==
    \E r \in Reqs :
        /\ trig[r].pc = "done" /\ trig[r].result = "OK"
        /\ CommandsFor(sent, r) # {}
        /\ uploads[r].Status = "pending"

\* the command of the executor was parsed: the handler is past
\* parseUploadConfig
TicketParsed == exec.upload_id # 0

\* C30: for a download_file command whose ticket parses, the executor hands
\* the in_progress Response to the channel before it looks at the file or
\* uploads any part and before the terminal Response, of which there is at
\* most one; the in_progress frame is the first frame written for the command
\* when the channel is up.
C30_InProgressFirst ==
    [][/\ (TicketParsed' /\ exec'.log # <<>>) =>
            /\ exec'.log[1].ev = "in_progress"
            /\ Cardinality(Events(exec'.log, "in_progress")) = 1
            /\ Cardinality(Events(exec'.log, "success") \cup Events(exec'.log, "error")) <= 1
            /\ \A k \in Events(exec'.log, "success") \cup Events(exec'.log, "error") :
                  k = Len(exec'.log)
       /\ (exec.pc = "announce" /\ exec'.pc # "announce" /\ ~SendLost) =>
            /\ Len(wire') = Len(wire) + 1
            /\ wire'[Len(wire')].type = "response"
            /\ wire'[Len(wire')].status = "in_progress"
            /\ wire'[Len(wire')].payload.upload_id = exec.upload_id]_vars

\* the executor has announced the transfer, uploaded parts and sent its
\* terminal Response
C30_Witness ==
    /\ TicketParsed /\ exec.pc = "done"
    /\ Events(exec.log, "put") # {}
    /\ exec.log[1].ev = "in_progress"
    /\ exec.log[Len(exec.log)].ev \in {"success", "error"}

\* the file is larger than the ticket can carry
OverCapacity == exec.pc \in {"upload", "done"} /\ exec.fileSize > exec.parts * DefaultChunkSize

\* C31: when the file is larger than the ticket's capacity (ticket parts times
\* chunk size), the executor ends with an error Response and never sends a
\* success Response for the truncated upload.
C31_OverCapacityIsError ==
    OverCapacity =>
        /\ Events(exec.log, "success") = {}
        /\ exec.pc = "done" => exec.outcome = "error"

\* inbound frames the coordinator does not understand: an unrecognized type,
\* an undecodable body, a Response for an action it does not track
DroppedFrames ==
    {[type |-> "unknown"], [type |-> "malformed"]}
    \cup {m \in ResponseFrames : m.action # "download_file"}

\* the agent's handler task k is for a frame it does not understand
DroppedTask(k) ==
    /\ k \in pump.running /\ k \notin pump'.running
    /\ pump.inbox[k].type = "unknown"

\* C32: on the coordinator and on the agent, a received frame of an
\* unrecognized type, with an unknown action or an undecodable body changes
\* nothing but itself: the channel stays open and registered, the read loop
\* goes on, and no record, blob-store call or transport is touched.
C32_BadFrameIsDropped ==
    [][/\ \A msg \in DroppedFrames :
            HandleClientRead(XferConn, msg) =>
                /\ hc' = hc /\ hc[XferConn].pc = "read"
                /\ clients' = clients /\ connState' = connState
                /\ uploads' = uploads /\ s3calls' = s3calls
       /\ \A k \in 1..MaxFrames :
            DroppedTask(k) =>
                /\ cli' = cli /\ readPump' = readPump
                /\ pump'.inbox = pump.inbox /\ pump'.rd = pump.rd
                /\ pump'.running = pump.running \ {k}]_vars

\* the agent dropped an unknown frame and answered the Ping that came after
\* it; its channel is still up
C32_Witness ==
    /\ readPump = "running" /\ cli.conn = "open" /\ cli.connected
    /\ \E j, k \in DOMAIN pump.inbox :
          /\ j < k /\ k <= pump.rd
          /\ pump.inbox[j].type = "unknown" /\ j \notin pump.running
          /\ pump.inbox[k].type = "ping" /\ k \in pump.pongs

\* the executor was handed a command whose payload lacks the upload
\* configuration, the transfer id or any part URL
BadTicket ==
    /\ exec.pc # "idle"
    /\ ~exec.cmd.upload_config \/ exec.cmd.upload_id = 0 \/ exec.cmd.parts = 0

\* C33: a download_file command whose payload lacks the upload configuration,
\* the transfer id or any part URL is answered with exactly one error
\* Response (written as one frame when the channel is up), and no in_progress
\* Response, file access or part upload is made for it.
C33_BadTicketOneError ==
    [][/\ BadTicket' =>
            /\ exec'.pc = "done" /\ exec'.outcome = "error"
            /\ exec'.log = <<Did("error")>>
       /\ (exec.pc = "idle" /\ BadTicket' /\ ~SendLost) =>
            /\ Len(wire') = Len(wire) + 1
            /\ LET f == wire'[Len(wire')] IN
               f.type = "response" /\ f.status = "error" /\ f.error \in ErrTexts]_vars

\* a ticket with an id and no part URL was turned down and the error Response
\* is on the channel
C33_Witness ==
    /\ BadTicket /\ exec.cmd.upload_config /\ exec.cmd.upload_id # 0
    /\ ~exec.lost
    /\ \E i \in DOMAIN wire : wire[i].type = "response" /\ wire[i].status = "error"

\* the part numbers of a ticket, in the ticket's order
PartNumbers(urls) == [i \in DOMAIN urls |-> urls[i].PartNumber]

\* C34: a ticket issued for size Z and chunk size C has exactly ceil(Z/C)
\* parts, numbered 1..ceil(Z/C) in ascending order with no gap or duplicate,
\* and the ticket carried by the command is the issued one, unmodified.
C34_TicketParts ==
    LET n == PartsNeeded(ticket.cfg.FileSize, ticket.cfg.ChunkSize) IN
    /\ ticket.pc \in {"issued", "sent"} =>
          /\ Len(ticket.issued) = n
          /\ PartNumbers(ticket.issued) = [i \in 1..n |-> i]
    /\ ticket.pc = "sent" => ticket.command = ticket.issued

\* the ticket for 12 MB in chunks of 5 MB went into a command with 3 parts
C34_Witness ==
    /\ ticket.pc = "sent"
    /\ ticket.cfg = [FileSize |-> 12, ChunkSize |-> 5]
    /\ Len(ticket.command) = 3

\* the handler loop of connection c1 exits while its agent id is registered
\* with another, open connection c2
StaleExit(c1, c2) ==
    /\ c1 # c2
    /\ hc[c1].pc = "read" /\ hc'[c1].pc = "done"
    /\ [id |-> hc[c1].clientID, conn |-> c2] \in clients
    /\ connState[c2] = "open"

\* C35: after agent id A is re-registered with connection c2 while c1 is
\* still served, the exit of c1's handler loop neither closes c2 nor removes
\* A from the registry.
C35_StaleExitKeepsNewHandle ==
    [][\A c1 \in Conns, c2 \in Conns :
          StaleExit(c1, c2) =>
              /\ [id |-> hc[c1].clientID, conn |-> c2] \in clients'
              /\ connState'[c2] = "open"]_vars

\* the completion calls for transfer u that the blob store accepted
CompletedOK(u) == {i \in CompleteCalls(u) : s3calls[i].ok}

\* C36: a TransferRecord whose status is Completed has had a successful
\* blob-store completion call for its session; a success Response without
\* digests never leaves a record Completed.
C36_CompletedMeansStored ==
    \A u \in UploadIds :
        (uploads[u].exists /\ uploads[u].Status = "completed") => CompletedOK(u) # {}

\* the handler loop of c has ended on its read deadline
TimedOut(c) == hc[c].pc = "done" /\ beat[c].left = 0

\* C37: a channel whose agent stays connected and answers every coordinator
\* Ping with a Pong is never unregistered as dead.
C37_AnsweringAgentStaysRegistered ==
    \A c \in Conns :
        (EveryPingAnswered(c) /\ PingsSent(c) # {}) => ~TimedOut(c)

\* TriggerDownload answered 500 after the connectivity check had passed: the
\* agent had gone when SendCommand looked it up, or the frame write failed
SendErrors == {"SendNotConnected", "SendFailed"}

\* C38: whenever TriggerDownload returns an error after passing the
\* connectivity check, no record of that request remains registered as
\* Pending and the blob-store session it initiated has been aborted.
C38_FailedSendCleansUp ==
    \A r \in Reqs :
        (trig[r].pc = "done" /\ trig[r].result \in SendErrors) =>
            /\ ~(uploads[r].exists /\ uploads[r].Status = "pending")
            /\ AbortCalls(r) # {}

\* a Response or Status frame is received on a channel of agent id
ReceivedFrom(id) ==
    \E c \in Conns, msg \in ResponseFrames \cup StatusFrames :
        /\ hc[c].clientID = id
        /\ HandleClientRead(c, msg)

\* C39: a Response or Status frame received on agent A's channel never
\* changes a TransferRecord whose agent id is different from A.
C39_ForeignFrameChangesNothing ==
    [][\A u \in UploadIds, id \in AgentIds :
          (uploads[u].exists /\ uploads[u].ClientID # id /\ ReceivedFrom(id))
              => uploads'[u] = uploads[u]]_vars

\* the step in which the read loop's deferred disconnect closes the transport
ReadLoopCloses == readPump = "close" /\ readPump' # "close" /\ cli.conn = "open"

\* the step in which Stop's disconnect closes the transport
StopCloses == pump.stopper = "close" /\ pump'.stopper = "done" /\ cli.conn = "open"

\* C40: on both paths that close the agent's transport, the read loop's exit
\* and Stop, no dispatched handler task is running at the moment of the
\* close, whether it was dispatched before, during or after the drain.
C40_NoHandlerAtClose ==
    /\ [][ReadLoopCloses => pump.running = {}]_vars
    /\ [][StopCloses => pump.running = {}]_vars

====
